---- MODULE Spec2Model ----
(***************************************************************************)
(* Ring-of-rings audio output engine of audio.c (USE_AUDIORING and         *)
(* USE_AUDIO_THREAD build): the producer-side facade (AudioSetup,          *)
(* AudioEnqueue, AudioVideoReady, AudioFlushBuffers, AudioGetDelay, ...),  *)
(* the play thread AudioPlayHandlerThread with AudioNextRing, and the      *)
(* thread handlers of the ALSA and OSS output modules.                     *)
(*                                                                         *)
(* Byte quantities, sample rates and time stamps are the program's own.    *)
(* A segment's byte ring is kept as the pair of stream positions           *)
(* (wr, rd): bytes written into / read out of the ring since its last      *)
(* reset, so that the bytes a sink write receives are the range            *)
(* [rd, rd + n) of the segment's stream.                                   *)
(***************************************************************************)
EXTENDS Integers, Sequences, FiniteSets, TLC

\* ------------------------------------------------------------------------
\*  Program constants
\* ------------------------------------------------------------------------

AUDIO_RING_MAX ==
    8

AudioRingBufferSize ==
    3 * 5 * 7 * 8 * 2 * 1000

AudioBytesProSample ==
    2

AudioBufferTime ==
    336

\* static int AudioStereoDescent: volume descent for stereo, as it is when
\* AudioSetStereoDescent has not been called
AudioStereoDescent ==
    0

\* extern int VideoAudioDelay: the video module's configured delay (ticks).
VideoAudioDelay ==
    0

\* INT64_C(0x8000000000000000), "no time stamp".  TLC's integers
\* are 32 bit wide, the most negative value it can hold stands for it; no
\* arithmetic is ever done on it.
AV_NOPTS ==
    -2147483647

AudioRatesMax ==
    2

AudioRatesTable ==
    <<44100, 48000>>

\* for (i = 0; i < 24 * 2; ++i) in AudioFlushBuffers
FlushPolls ==
    24 * 2

\* ------------------------------------------------------------------------
\*  Bounds of the model
\* ------------------------------------------------------------------------

\* segments allocated (AudioSetup that succeeds + AudioFlushBuffers)
MaxAlloc ==
    2

\* segments allocated where the slots are exhausted
MaxSlotAlloc ==
    9

\* segments allocated, and calls of AudioEnqueue, where the order of the
\* segments is looked at
MaxFifoAlloc ==
    9

MaxFifoEnq ==
    2

\* calls of AudioEnqueue with samples
MaxEnq ==
    2

\* calls of AudioEnqueue where the write segment is filled up
MaxFillEnq ==
    3

\* segments allocated, and calls of AudioEnqueue, where the order of the
\* bytes of a segment is looked at
MaxPlayAlloc ==
    1

MaxPlayEnq ==
    2

\* polls of AudioFlushBuffers that are distinguished (of FlushPolls)
MaxPoll ==
    2

\* samples of the buffers the filters are given
MaxSamples ==
    2

\* sizes of the sample bursts the decoder hands to AudioEnqueue (bytes)
EnqCounts ==
    {192000}

\* sizes of sample bursts of which the third no longer fits into a
\* segment (bytes)
FillCounts ==
    {672000}

\* the formats of the streams that are played
PlayFormats ==
    {<<48000, 2, 0>>}

\* the formats of two streams that follow each other
TwoFormats ==
    {<<44100, 2, 0>>, <<48000, 2, 0>>}

\* a PCM stream or an AC3 stream
PassThroughFormats ==
    {<<48000, 2, 0>>, <<48000, 2, 1>>}

\* sizes of the bursts where AC3 is passed through (bytes): no whole
\* number of stereo frames
PassThroughCounts ==
    {192002}

\* a stereo stream and a 5.1 stream that follow each other
ChannelFormats ==
    {<<48000, 2, 0>>, <<48000, 6, 0>>}

\* what the producer asks AudioSetup for
SetupFormats ==
    {<<48000, 2, 0>>, <<44100, 1, 0>>, <<48000, 2, 1>>,
     <<0, 2, 0>>, <<48000, 0, 0>>, <<32000, 2, 0>>}

\* frames the sink reports as still queued in the device (snd_pcm_delay,
\* SNDCTL_DSP_GETODELAY in bytes)
HwDelayChoices ==
    {-1, 0, 1024}

\* period size the device settles on (bytes)
PeriodChoices ==
    {4608}

\* (rate, channels) pairs a device accepts, as probed by AudioInit
StereoDevice ==
    {<<44100, 2>>, <<48000, 2>>}

SurroundDevice ==
    {<<44100, 6>>, <<48000, 6>>}

MonoStereoDevice ==
    {<<44100, 1>>, <<44100, 2>>, <<48000, 1>>, <<48000, 2>>}

Only44Device ==
    {<<44100, 2>>}

\* a device that plays stereo and 5.1
StereoSurroundDevice ==
    {<<44100, 2>>, <<48000, 2>>, <<44100, 6>>, <<48000, 6>>}

\* a device that plays 7.1 only
FullSurroundDevice ==
    {<<44100, 8>>, <<48000, 8>>}

\* the format of a 7.1 stream
FullSurroundFormats ==
    {<<48000, 8, 0>>}

\* a module whose Setup returns 0 for every probe of AudioInit
NoopAcceptsAll ==
    {<<44100, c>> : c \in 1 .. 8} \cup {<<48000, c>> : c \in 1 .. 8}

\* NoopSetup returns -1 for every probe of AudioInit
NoopDevice ==
    {}

\* the formats asked of the noop module
NoopFormats ==
    {<<44100, c, 0>> : c \in 1 .. 8} \cup {<<48000, c, 0>> : c \in 1 .. 8}

\* ------------------------------------------------------------------------
\*  Arithmetic helpers
\* ------------------------------------------------------------------------

Min(a, b) ==
    IF a < b THEN a ELSE b

Max(a, b) ==
    IF a > b THEN a ELSE b

RECURSIVE Gcd(_, _)
Gcd(a, b) ==
    IF b = 0 THEN a ELSE Gcd(b, a % b)

\* (int64_t) a * b / c for a, b >= 0 and c > 0, with the fraction b/c
\* reduced first so that the product stays inside TLC's integers.
MulDiv(a, b, c) ==
    (a * (b \div Gcd(b, c))) \div (c \div Gcd(b, c))

\* bytes * 90 * 1000 / (rate * channels * AudioBytesProSample)
BytesToTicks(bytes, rate, channels) ==
    MulDiv(bytes, 90 * 1000, rate * channels * AudioBytesProSample)

\* a / b of C for b > 0: the quotient is truncated towards zero
CDiv(a, b) ==
    IF a >= 0 THEN a \div b ELSE -((-a) \div b)

INT16_MAX ==
    32767

INT16_MIN ==
    -32768

\* if (t < INT16_MIN) t = INT16_MIN; else if (t > INT16_MAX) t = INT16_MAX;
Clip16(t) ==
    IF t < INT16_MIN THEN INT16_MIN
    ELSE IF t > INT16_MAX THEN INT16_MAX
    ELSE t

\* values of the samples the filters are given
SampleChoices ==
    {INT16_MIN, -1000, 0, 3, INT16_MAX}

\* the sample buffers of 1 .. n samples
SampleBuffers(n) ==
    UNION {[1 .. len -> SampleChoices] : len \in 1 .. n}

\* ------------------------------------------------------------------------
\*  Byte ring (ringbuffer.h), by stream positions
\* ------------------------------------------------------------------------

RingBufferUsedBytes(rb) ==
    rb.wr - rb.rd

RingBufferFreeBytes(rb) ==
    AudioRingBufferSize - (rb.wr - rb.rd)

\* number of bytes RingBufferWrite stores: all, or what still fits
RingBufferWritten(rb, cnt) ==
    Min(cnt, RingBufferFreeBytes(rb))

RingBufferWrite(rb, cnt) ==
    [rb EXCEPT !.wr = @ + RingBufferWritten(rb, cnt)]

\* RingBufferReadAdvance never advances past the write position
RingBufferReadAdvance(rb, cnt) ==
    [rb EXCEPT !.rd = @ + Min(cnt, RingBufferUsedBytes(rb))]

\* contiguous readable bytes at the read position
RingBufferGetReadPointer(rb) ==
    Min(RingBufferUsedBytes(rb),
        AudioRingBufferSize - (rb.rd % AudioRingBufferSize))

RingBufferReset(rb) ==
    [rb EXCEPT !.wr = 0, !.rd = 0]

\* ------------------------------------------------------------------------
\*  State
\* ------------------------------------------------------------------------

VARIABLES
    AudioUsedModule,     \* selected output module: "alsa" or "oss"
    HwCaps,              \* (rate, channels) pairs the device accepts
    AudioChannelMatrix,  \* input to hardware channel matrix
    AudioRing,           \* ring of audio ring buffers
    AudioRingWrite,      \* audio ring write pointer
    AudioRingRead,       \* audio ring read pointer
    AudioRingFilled,     \* how many of the ring is used (atomic_t)
    AudioStartThreshold, \* start play, if filled
    AudioRunning,        \* thread running / stopped
    AudioPaused,         \* audio paused
    AudioVideoIsReady,   \* video ready start early
    AudioSkip,           \* skip audio to sync to video
    PcmHandle,           \* AlsaPCMHandle != NULL / OssPcmFildes != -1
    PcmState,            \* snd_pcm_state: "prepared", "running", "xrun"
    worker,              \* play thread: position and locals
    signalled,           \* AudioStartCond: a waiting thread was signalled
    producer,            \* decoder thread: position inside AudioFlushBuffers,
                         \* and the segment of the last call of it that
                         \* returned (0: none)
    sinkLog,             \* calls into the sink, in order (see SinkWrite)
    op,                  \* the facade call this step was, "" for other steps
    before,              \* what that call found when it was entered
    ret,                 \* value that call returned
    hwDelay,             \* what AudioUsedModule->GetDelay() answers in a call
                         \* of AudioGetDelay or AudioGetClock
    nAlloc,              \* segments allocated so far
    nEnq,                \* AudioEnqueue calls so far
    lim,                 \* what a run explores: numbers of allocations and
                         \* enqueues, and what the device may answer
    AudioVolume,         \* current volume (0 .. 1000)
    AudioMute,           \* flag muted
    AudioSoftVolume,     \* flag use soft volume
    AudioAmplifier,      \* software volume factor
    AudioCompression,    \* flag use compress volume
    AudioCompressionFactor, \* current compression factor
    AudioMaxCompression, \* max. compression factor
    samples              \* the sample buffer a filter is given and works
                         \* on (16 bit samples)

vars ==
    <<AudioUsedModule, HwCaps, AudioChannelMatrix, AudioRing, AudioRingWrite,
      AudioRingRead, AudioRingFilled, AudioStartThreshold, AudioRunning,
      AudioPaused, AudioVideoIsReady, AudioSkip, PcmHandle, PcmState, worker,
      signalled, producer, sinkLog, op, before, ret, hwDelay, nAlloc, nEnq, lim,
      AudioVolume, AudioMute, AudioSoftVolume, AudioAmplifier, AudioCompression,
      AudioCompressionFactor, AudioMaxCompression, samples>>

\* the variables of the ring of rings and of the sync controller
ringVars ==
    <<AudioRing, AudioRingWrite, AudioRingRead, AudioRingFilled>>

syncVars ==
    <<AudioStartThreshold, AudioRunning, AudioPaused, AudioVideoIsReady,
      AudioSkip>>

\* the variables of the volume and of the filters
filterVars ==
    <<AudioVolume, AudioMute, AudioSoftVolume, AudioAmplifier, AudioCompression,
      AudioCompressionFactor, AudioMaxCompression, samples>>

\* what no step of the ring of rings changes
staticVars ==
    <<AudioUsedModule, HwCaps, AudioChannelMatrix, lim, filterVars>>

Slots ==
    0 .. AUDIO_RING_MAX - 1

\* static AudioRingRing AudioRing[AUDIO_RING_MAX], zero initialised, with the
\* ring AudioRingInit gives every slot.  id is bookkeeping: the number of
\* the allocation that produced the segment in the slot (0: none yet).
\* Treated is bookkeeping too: what the play function has done in place to
\* the bytes that are still in the ring, as regions [to |-> stream
\* position, how |-> effect] in ascending order, the first of which begins
\* at the read position; bytes behind the last region are as enqueued.
EmptyRingRing ==
    [FlushBuffers |-> 0, UseAc3 |-> 0, PacketSize |-> 0, HwSampleRate |-> 0,
     HwChannels |-> 0, InSampleRate |-> 0, InChannels |-> 0, PTS |-> 0,
     RingBuffer |-> [wr |-> 0, rd |-> 0], id |-> 0, Treated |-> <<>>]

\* value of before in a step that is no facade call
NoCall ==
    [args |-> <<>>, running |-> FALSE, filled |-> 0, write |-> 0]

\* (int16_t) count, as stored in PacketSize
ToInt16(n) ==
    IF n % 65536 >= 32768 THEN (n % 65536) - 65536 ELSE n % 65536

\* ------------------------------------------------------------------------
\*  AudioInit: probe the device, build the channel matrix
\* ------------------------------------------------------------------------

\* AudioChannelsInHw after both probe loops: channel counts the device
\* accepted at 44100 Hz and then also at 48000 Hz
AudioChannelsInHw(caps) ==
    {c \in 1 .. 8 : <<44100, c>> \in caps /\ <<48000, c>> \in caps}

\* AudioRatesInHw[u] != 0
AudioRatesInHw(caps, u) ==
    IF u = 1
    THEN \E c \in 1 .. 8 : <<44100, c>> \in caps
    ELSE AudioChannelsInHw(caps) # {}

\* the hardware channel counts the switch of AudioInit tries for an
\* unsupported input channel count, in the order it falls through them
MatrixFallback(chan) ==
    CASE chan = 1 -> <<2>>
      [] chan \in {2, 3} -> <<4, 5, 6, 7, 8, 6, 2, 1>>
      [] chan = 4 -> <<5, 6, 7, 8, 6, 2, 1>>
      [] chan = 5 -> <<6, 7, 8, 6, 2, 1>>
      [] chan = 6 -> <<7, 8, 6, 2, 1>>
      [] chan = 7 -> <<8, 6, 2, 1>>
      [] chan = 8 -> <<6, 2, 1>>
      [] OTHER -> <<>>

RECURSIVE FirstSupported(_, _)
FirstSupported(list, inHw) ==
    IF list = <<>> THEN 0
    ELSE IF Head(list) \in inHw THEN Head(list)
    ELSE FirstSupported(Tail(list), inHw)

\* AudioChannelMatrix[u][chan] as AudioInit builds it; entry 0 of a row is
\* never written and stays 0.  Rows are numbered 1 .. AudioRatesMax.
BuildChannelMatrix(caps) ==
    [u \in 1 .. AudioRatesMax |->
        [chan \in 0 .. 8 |->
            IF chan = 0 \/ ~AudioRatesInHw(caps, u) THEN 0
            ELSE IF chan \in AudioChannelsInHw(caps) THEN chan
            ELSE FirstSupported(MatrixFallback(chan), AudioChannelsInHw(caps))]]

\* start threshold AlsaSetup computes with a period of period bytes, for
\* the buffer time and the video's audio delay given
AlsaThresholdFor(freq, channels, period, buffer_time, video_delay) ==
    LET delay == IF video_delay > 0
                 THEN buffer_time + video_delay \div 90
                 ELSE buffer_time
        bytes == (freq * channels * AudioBytesProSample * delay) \div 1000
        least == IF period < bytes THEN bytes ELSE period
    IN IF least > AudioRingBufferSize \div 3
       THEN AudioRingBufferSize \div 3
       ELSE least

\* the start threshold of OssSetup without the 300 ms it adds
OssThresholdPlain(freq, channels, fragsize, fragstotal, buffer_time, video_delay) ==
    AlsaThresholdFor(freq, channels, (fragsize - 1) * fragstotal,
                     buffer_time, video_delay)

\* start threshold OssSetup computes, for fragstotal fragments of
\* fragsize bytes
OssThresholdFor(freq, channels, fragsize, fragstotal, buffer_time, video_delay) ==
    LET delay == IF video_delay > 0
                 THEN buffer_time + 300 + video_delay \div 90
                 ELSE buffer_time + 300
        bytes == (freq * channels * AudioBytesProSample * delay) \div 1000
        least == IF (fragsize - 1) * fragstotal < bytes
                 THEN bytes
                 ELSE (fragsize - 1) * fragstotal
    IN IF least > AudioRingBufferSize \div 3
       THEN AudioRingBufferSize \div 3
       ELSE least

\* start threshold AlsaSetup computes
AlsaStartThreshold(freq, channels, period) ==
    AlsaThresholdFor(freq, channels, period, AudioBufferTime,
                     VideoAudioDelay)

\* start threshold OssSetup computes, for fragments of fragsize bytes
OssStartThreshold(freq, channels, fragsize, fragstotal) ==
    OssThresholdFor(freq, channels, fragsize, fragstotal, AudioBufferTime,
                    VideoAudioDelay)

ModuleStartThreshold(module, freq, channels, period) ==
    IF module = "alsa"
    THEN AlsaStartThreshold(freq, channels, period)
    ELSE OssStartThreshold(freq, channels, period, 16)

\* the last probe of AudioInit that succeeded leaves its start threshold
ProbeThreshold(module, caps, period) ==
    LET both == AudioChannelsInHw(caps)
        at44 == {c \in 1 .. 8 : <<44100, c>> \in caps}
        top(S) == CHOOSE c \in S : \A d \in S : d <= c
    IN  IF both # {}
        THEN ModuleStartThreshold(module, 48000, top(both), period)
        ELSE IF at44 # {}
        THEN ModuleStartThreshold(module, 44100, top(at44), period)
        ELSE 0

\* a device that takes every write whole and at once, never fails and is
\* never reported as stopped
AcceptingSink ==
    [waits |-> {"ok"}, avails |-> {AudioRingBufferSize},
     takes |-> {AudioRingBufferSize}, setups |-> {"ok", "params"},
     xrun |-> FALSE]

\* a device that also lets a wait time out, takes no more than 96000 bytes
\* of some writes, and stops when it has played all it was given
SlowSink ==
    [waits |-> {"ok", "timeout", "recovered"},
     avails |-> {AudioRingBufferSize},
     takes |-> {AudioRingBufferSize, 96000},
     setups |-> {"ok", "params"}, xrun |-> TRUE]

\* a device whose every call can also fail
FailingSink ==
    [waits |-> {"ok", "timeout", "recovered", "error"},
     avails |-> {-1, 0, AudioRingBufferSize},
     takes |-> {AudioRingBufferSize, 96000, -1},
     setups |-> {"ok", "params", "open"}, xrun |-> TRUE]

\* a device that takes every write whole and can refuse to be set up
RefusingSink ==
    [waits |-> {"ok"}, avails |-> {AudioRingBufferSize},
     takes |-> {AudioRingBufferSize}, setups |-> {"ok", "refuse", "open"},
     xrun |-> TRUE]

\* the state AudioInit leaves, for the given modules and devices
\* the device is set up for no format: before the first Setup of the
\* module for a segment and after one that failed
NoFormat ==
    <<0, 0, 0>>

\* what AudioNextRing hands to the Setup of the module for segment seg
SegmentFormat(seg) ==
    <<seg.UseAc3, seg.HwSampleRate, seg.HwChannels>>

InitRing(modules, devices, sink, allocs, enqs) ==
    /\ AudioUsedModule \in modules
    /\ HwCaps \in devices
    /\ lim = [alloc |-> allocs, enq |-> enqs, sink |-> sink]
    /\ AudioChannelMatrix = BuildChannelMatrix(HwCaps)
    /\ AudioRing = [s \in Slots |-> EmptyRingRing]
    /\ AudioRingWrite = 0
    /\ AudioRingRead = 0
    /\ AudioRingFilled = 0
    /\ \E period \in PeriodChoices :
          AudioStartThreshold = ProbeThreshold(AudioUsedModule, HwCaps, period)
    /\ AudioRunning = FALSE
    /\ AudioPaused = FALSE
    /\ AudioVideoIsReady = FALSE
    /\ AudioSkip = 0
    /\ PcmHandle = TRUE
    /\ PcmState = "prepared"
    /\ worker = [pc |-> "top", filled |-> 0, read |-> 0, flush |-> 0,
                 first |-> 0, err |-> 0, adv |-> 0, hw |-> NoFormat]
    /\ signalled = FALSE
    /\ producer = [pc |-> "idle", i |-> 0, done |-> 0]
    /\ sinkLog = <<>>
    /\ op = ""
    /\ before = NoCall
    /\ ret = 0
    /\ hwDelay = 0
    /\ nAlloc = 0
    /\ nEnq = 0

\* the volume and the filters as they are when nothing has been
\* configured: static variables, zero
InitFilters ==
    /\ AudioVolume = 0
    /\ AudioMute = FALSE
    /\ AudioSoftVolume = FALSE
    /\ AudioAmplifier = 0
    /\ AudioCompression = FALSE
    /\ AudioCompressionFactor = 0
    /\ AudioMaxCompression = 0
    /\ samples = <<>>

InitWith(modules, devices, sink, allocs, enqs) ==
    /\ InitRing(modules, devices, sink, allocs, enqs)
    /\ InitFilters

Init ==
    InitWith({"alsa"}, {StereoDevice}, SlowSink, MaxAlloc, MaxEnq)

\* ------------------------------------------------------------------------
\*  Condition variable and accessors
\* ------------------------------------------------------------------------

\* this step is the facade call name(args) (for AudioFlushBuffers: a part
\* of it)
Called(name, args) ==
    /\ op' = name
    /\ before' = [args |-> args, running |-> AudioRunning,
                  filled |-> AudioRingFilled, write |-> AudioRingWrite]

\* pthread_cond_signal(&AudioStartCond): wakes the play thread if it is
\* blocked in pthread_cond_wait, has no effect otherwise
CondSignal ==
    signalled \/ worker.pc = "wait"

WriteRing ==
    AudioRing[AudioRingWrite]

ReadRing ==
    AudioRing[AudioRingRead]

ProducerIdle ==
    producer.pc = "idle"

\* ------------------------------------------------------------------------
\*  AudioSetup / AudioRingAdd
\* ------------------------------------------------------------------------

\* index of sample_rate in AudioRatesTable, AudioRatesMax + 1 if not found
RateIndex(sample_rate) ==
    IF \E u \in 1 .. AudioRatesMax : AudioRatesTable[u] = sample_rate
    THEN CHOOSE u \in 1 .. AudioRatesMax : AudioRatesTable[u] = sample_rate
    ELSE AudioRatesMax + 1

\* AudioRingAdd without the test for a full ring
SetupRejectedNoFull(freq, channels) ==
    \/ freq = 0
    \/ channels = 0
    \/ RateIndex(freq) = AudioRatesMax + 1
    \/ AudioChannelMatrix[RateIndex(freq)][channels] = 0

\* AudioRingAdd without the test of the channel matrix
SetupRejectedNoMatrix(freq, channels) ==
    \/ freq = 0
    \/ channels = 0
    \/ RateIndex(freq) = AudioRatesMax + 1
    \/ AudioRingFilled = AUDIO_RING_MAX

\* the checks of AudioSetup and AudioRingAdd that end in return -1
SetupRejected(freq, channels) ==
    \/ freq = 0
    \/ channels = 0
    \/ RateIndex(freq) = AudioRatesMax + 1
    \/ AudioChannelMatrix[RateIndex(freq)][channels] = 0
    \/ AudioRingFilled = AUDIO_RING_MAX

\* the segment AudioRingAdd writes into the slot it advanced to
AddedRingRing(old, sample_rate, channels, use_ac3) ==
    [old EXCEPT !.FlushBuffers = 1,
                !.UseAc3 = use_ac3,
                !.PacketSize = 0,
                !.InSampleRate = sample_rate,
                !.InChannels = channels,
                !.HwSampleRate = sample_rate,
                !.HwChannels = AudioChannelMatrix[RateIndex(sample_rate)][channels],
                !.PTS = AV_NOPTS,
                !.RingBuffer = RingBufferReset(@),
                !.id = nAlloc + 1,
                !.Treated = <<>>]

AudioSetup(freq, channels, use_ac3) ==
    /\ ProducerIdle
    /\ Called("setup", <<freq, channels, use_ac3>>)
    /\ IF SetupRejected(freq, channels)
       THEN /\ ret' = -1
            /\ UNCHANGED <<ringVars, syncVars, signalled, nAlloc>>
       ELSE /\ nAlloc < lim.alloc
            /\ AudioRingWrite' = (AudioRingWrite + 1) % AUDIO_RING_MAX
            /\ AudioRing' = [AudioRing EXCEPT ![AudioRingWrite'] =
                    AddedRingRing(@, freq, channels, use_ac3)]
            /\ AudioRingFilled' = AudioRingFilled + 1
            /\ AudioRunning' = TRUE
            /\ signalled' = CondSignal
            /\ ret' = 0
            /\ nAlloc' = nAlloc + 1
            /\ UNCHANGED <<AudioRingRead, AudioStartThreshold, AudioPaused,
                           AudioVideoIsReady, AudioSkip>>
    /\ hwDelay' = 0
    /\ UNCHANGED <<staticVars, PcmHandle, PcmState, worker, producer, sinkLog,
                   nEnq>>

\* ------------------------------------------------------------------------
\*  AudioEnqueue
\* ------------------------------------------------------------------------

\* bytes handed to RingBufferWrite: AC3 as they come, PCM after the remix
\* of count / (InChannels * 2) frames to HwChannels
EnqueueBytes(seg, count) ==
    IF seg.UseAc3 = 1 THEN count
    ELSE (count \div (seg.InChannels * AudioBytesProSample))
            * seg.HwChannels * AudioBytesProSample

\* bytes dropped for a pending skip when the thread is not running
EnqueueSkip(used) ==
    IF AudioRunning THEN 0 ELSE Min(AudioSkip, used)

\* a start test that takes one start threshold for the forced start
EnqueueStartOnce(n) ==
    \/ AudioStartThreshold < n
    \/ AudioVideoIsReady /\ AudioStartThreshold < n

\* the start test of AudioEnqueue on n buffered bytes
EnqueueStart(n) ==
    \/ AudioStartThreshold * 4 < n
    \/ AudioVideoIsReady /\ AudioStartThreshold < n

\* a time stamp that advances by the bytes the ring stored
EnqueueClockStored(seg, bytes, stored) ==
    IF seg.PTS = AV_NOPTS THEN seg.PTS
    ELSE seg.PTS + BytesToTicks(stored, seg.HwSampleRate, seg.HwChannels)

\* "Update audio clock": PTS += count * 90 * 1000 / (HwSampleRate
\* * HwChannels * AudioBytesProSample), for the count handed to
\* RingBufferWrite
EnqueueClock(seg, bytes, stored) ==
    IF seg.PTS = AV_NOPTS THEN seg.PTS
    ELSE seg.PTS + BytesToTicks(bytes, seg.HwSampleRate, seg.HwChannels)

\* the body of AudioEnqueue(samples, count)
Enqueue(count) ==
    LET seg == WriteRing
        bytes == EnqueueBytes(seg, count)
        rb1 == RingBufferWrite(seg.RingBuffer, bytes)
        skip == EnqueueSkip(RingBufferUsedBytes(rb1))
        rb2 == RingBufferReadAdvance(rb1, skip)
        start == ~AudioRunning /\ EnqueueStart(RingBufferUsedBytes(rb2))
    IN  IF seg.HwSampleRate = 0
        THEN UNCHANGED <<AudioRing, AudioSkip, AudioRunning, signalled>>
        ELSE /\ AudioRing' = [AudioRing EXCEPT ![AudioRingWrite] =
                    [@ EXCEPT !.PacketSize =
                                  IF @ = 0 THEN ToInt16(count) ELSE @,
                              !.RingBuffer = rb2,
                              !.PTS = EnqueueClock(seg, bytes,
                                          RingBufferWritten(seg.RingBuffer,
                                                            bytes))]]
             /\ AudioSkip' = AudioSkip - skip
             /\ AudioRunning' = (AudioRunning \/ start)
             /\ signalled' = IF start THEN CondSignal ELSE signalled

AudioEnqueue(count) ==
    /\ ProducerIdle
    /\ Called("enqueue", <<count>>)
    /\ nEnq < lim.enq
    /\ Enqueue(count)
    /\ nEnq' = nEnq + 1
    /\ ret' = 0
    /\ hwDelay' = 0
    /\ UNCHANGED <<staticVars, AudioRingWrite, AudioRingRead, AudioRingFilled,
                   AudioStartThreshold, AudioPaused, AudioVideoIsReady,
                   PcmHandle, PcmState, worker, producer, sinkLog, nAlloc>>

\* ------------------------------------------------------------------------
\*  AudioPlay / AudioPause
\* ------------------------------------------------------------------------

AudioPlay ==
    /\ ProducerIdle
    /\ Called("play", <<>>)
    /\ IF ~AudioPaused
       THEN UNCHANGED <<AudioPaused, AudioRing, AudioSkip, AudioRunning,
                        signalled>>
       ELSE /\ AudioPaused' = FALSE
            /\ Enqueue(0)
    /\ ret' = 0
    /\ hwDelay' = 0
    /\ UNCHANGED <<staticVars, AudioRingWrite, AudioRingRead, AudioRingFilled,
                   AudioStartThreshold, AudioVideoIsReady, PcmHandle, PcmState,
                   worker, producer, sinkLog, nAlloc, nEnq>>

\* a pause that resumes when the output is paused already
AudioPauseToggle ==
    /\ ProducerIdle
    /\ Called("pause", <<>>)
    /\ AudioPaused' = ~AudioPaused
    /\ ret' = 0
    /\ hwDelay' = 0
    /\ UNCHANGED <<staticVars, ringVars, AudioStartThreshold, AudioRunning,
                   AudioVideoIsReady, AudioSkip, PcmHandle, PcmState, worker,
                   signalled, producer, sinkLog, nAlloc, nEnq>>

AudioPause ==
    /\ ProducerIdle
    /\ Called("pause", <<>>)
    /\ AudioPaused' = TRUE
    /\ ret' = 0
    /\ hwDelay' = 0
    /\ UNCHANGED <<staticVars, ringVars, AudioStartThreshold, AudioRunning,
                   AudioVideoIsReady, AudioSkip, PcmHandle, PcmState, worker,
                   signalled, producer, sinkLog, nAlloc, nEnq>>

\* ------------------------------------------------------------------------
\*  AudioSetVolume / AudioSetSoftvol
\* ------------------------------------------------------------------------

\* volumes handed to AudioSetVolume (0 .. 1000)
VolumeChoices ==
    {0, 500}

\* what AudioSetSoftvol is called with: -1 toggle, 0 off, 1 on
SoftvolChoices ==
    {-1, 0, 1}

\* the loudness reduced for stereo output
VolumeDescent(volume) ==
    IF /\ AudioStereoDescent # 0
       /\ ReadRing.InChannels = 2
       /\ ReadRing.UseAc3 = 0
    THEN Max(0, Min(1000, volume - AudioStereoDescent))
    ELSE volume

AudioSetVolume(volume) ==
    /\ ProducerIdle
    /\ Called("set_volume", <<volume>>)
    /\ AudioVolume' = volume
    /\ AudioMute' = (volume = 0)
    /\ AudioAmplifier' = VolumeDescent(volume)
    /\ ret' = 0
    /\ hwDelay' = 0
    /\ UNCHANGED <<AudioUsedModule, HwCaps, AudioChannelMatrix, lim,
                   AudioSoftVolume, AudioCompression,
                   AudioCompressionFactor, AudioMaxCompression, samples,
                   ringVars, syncVars,
                   PcmHandle, PcmState, worker, signalled, producer, sinkLog,
                   nAlloc, nEnq>>

AudioSetSoftvol(onoff) ==
    /\ ProducerIdle
    /\ Called("set_softvol", <<onoff>>)
    /\ AudioSoftVolume' = IF onoff < 0 THEN ~AudioSoftVolume ELSE onoff # 0
    /\ ret' = 0
    /\ hwDelay' = 0
    /\ UNCHANGED <<AudioUsedModule, HwCaps, AudioChannelMatrix, lim,
                   AudioVolume, AudioMute, AudioAmplifier, AudioCompression,
                   AudioCompressionFactor, AudioMaxCompression, samples,
                   ringVars, syncVars,
                   PcmHandle, PcmState, worker, signalled, producer, sinkLog,
                   nAlloc, nEnq>>

\* ------------------------------------------------------------------------
\*  The start threshold of a module's setup
\* ------------------------------------------------------------------------

\* period sizes (ALSA) and fragment sizes (OSS) the device reports, bytes
SetupPeriods ==
    {4608, 40000}

\* values of AudioBufferTime (ms): the default, and one that was set
BufferTimeChoices ==
    {336, 900}

\* values of VideoAudioDelay (90 kHz ticks)
VideoDelayChoices ==
    {-9000, 0, 9000, 90000}

\* AudioUsedModule->Setup(&freq, &channels, use_ac3) on a device that
\* takes the format: the start threshold it leaves.  NoopSetup returns -1
\* and sets nothing.
ModuleSetupThreshold(freq, channels, period, buffer_time, video_delay) ==
    /\ ProducerIdle
    /\ Called("module_setup",
              <<freq, channels, period, buffer_time, video_delay>>)
    /\ AudioStartThreshold' =
          CASE AudioUsedModule = "alsa" ->
                   AlsaThresholdFor(freq, channels, period, buffer_time,
                                    video_delay)
            [] AudioUsedModule = "oss" ->
                   OssThresholdFor(freq, channels, period, 16, buffer_time,
                                   video_delay)
            [] OTHER -> AudioStartThreshold
    /\ ret' = IF AudioUsedModule \in {"alsa", "oss"} THEN 0 ELSE -1
    /\ hwDelay' = 0
    /\ UNCHANGED <<staticVars, ringVars, AudioRunning, AudioPaused,
                   AudioVideoIsReady, AudioSkip, PcmHandle, PcmState, worker,
                   signalled, producer, sinkLog, nAlloc, nEnq>>

\* ------------------------------------------------------------------------
\*  Filters
\* ------------------------------------------------------------------------

\* an amplifier whose memset clears count / AudioBytesProSample bytes
AudioSoftAmplifierHalf(buf) ==
    IF AudioMute \/ AudioAmplifier = 0
    THEN [i \in DOMAIN buf |->
             IF 2 * i <= Len(buf) + 1 THEN 0 ELSE buf[i]]
    ELSE [i \in DOMAIN buf |-> Clip16(CDiv(buf[i] * AudioAmplifier, 1000))]

\* AudioSoftAmplifier(samples, count) on the buffer buf of count / 2
\* samples: what the buffer holds afterwards
AudioSoftAmplifier(buf) ==
    IF AudioMute \/ AudioAmplifier = 0
    THEN [i \in DOMAIN buf |-> 0]
    ELSE [i \in DOMAIN buf |-> Clip16(CDiv(buf[i] * AudioAmplifier, 1000))]

\* a filter works on the sample buffer in place; nothing else changes
FilterFrame ==
    /\ ProducerIdle
    /\ ret' = 0
    /\ hwDelay' = 0
    /\ UNCHANGED <<AudioUsedModule, HwCaps, AudioChannelMatrix, lim,
                   ringVars, syncVars, PcmHandle, PcmState, worker, signalled,
                   producer, sinkLog, nAlloc, nEnq>>

\* the play function hands the buffer to the amplifier
AmplifierPass ==
    /\ Called("amplifier", <<samples>>)
    /\ samples' = AudioSoftAmplifier(samples)
    /\ FilterFrame
    /\ UNCHANGED <<AudioVolume, AudioMute, AudioSoftVolume, AudioAmplifier,
                   AudioCompression, AudioCompressionFactor,
                   AudioMaxCompression>>

\* max_sample of AudioCompressor: the loudest sample of the buffer
PeakOf(buf) ==
    LET mags == {IF buf[i] < 0 THEN -buf[i] ELSE buf[i] : i \in DOMAIN buf}
    IN CHOOSE m \in mags \cup {0} : \A x \in mags : x <= m

\* the smoothed factor without the test against factor
CompressionSmoothOnly(cur, factor) ==
    CDiv(cur * 950 + factor * 50, 1000)

\* AudioCompressionFactor = (AudioCompressionFactor * 950 + factor * 50)
\* / 1000; if (AudioCompressionFactor > factor) AudioCompressionFactor =
\* factor;
CompressionSmooth(cur, factor) ==
    LET smoothed == CDiv(cur * 950 + factor * 50, 1000)
    IN IF smoothed > factor THEN factor ELSE smoothed

\* AudioCompressor(buffer, count) as AudioEnqueue calls it on the samples
\* buf it was handed, when AudioCompression is set
AudioCompressor(buf) ==
    /\ AudioCompression
    /\ Called("compressor", <<buf>>)
    /\ LET max_sample == PeakOf(buf)
           factor == (INT16_MAX * 1000) \div max_sample
           smoothed == CompressionSmooth(AudioCompressionFactor, factor)
           capped == IF smoothed > AudioMaxCompression
                     THEN AudioMaxCompression
                     ELSE smoothed
       IN IF max_sample > 0
          THEN /\ AudioCompressionFactor' = capped
               /\ samples' = [i \in DOMAIN buf |->
                                 Clip16(CDiv(buf[i] * capped, 1000))]
          ELSE /\ AudioCompressionFactor' = AudioCompressionFactor
               /\ samples' = buf
    /\ FilterFrame
    /\ UNCHANGED <<AudioVolume, AudioMute, AudioSoftVolume, AudioAmplifier,
                   AudioCompression, AudioMaxCompression>>

\* max. factors of compression the configuration sets (/1000)
CompressionChoices ==
    {0, 1000, 2000, 4000}

AudioSetCompression(onoff, maxfac) ==
    /\ Called("set_compression", <<onoff, maxfac>>)
    /\ AudioCompression' = IF onoff < 0 THEN ~AudioCompression ELSE onoff # 0
    /\ AudioMaxCompression' = maxfac
    /\ LET cur == IF AudioCompressionFactor = 0
                  THEN 1000
                  ELSE AudioCompressionFactor
       IN AudioCompressionFactor' = IF cur > maxfac THEN maxfac ELSE cur
    /\ FilterFrame
    /\ UNCHANGED <<AudioVolume, AudioMute, AudioSoftVolume, AudioAmplifier, samples>>

\* AudioStereo2Mono(in, frames, out): out is the buffer as it was found,
\* the result is what it holds afterwards.  The loop is
\*   for (i = 0; i < frames; i += 2) out[i / 2] = (in[i + 0] + in[i + 1]) / 2;
\* so out[k - 1] is written if 2 * (k - 1) < frames and is left as found
\* otherwise.
AudioStereo2Mono(in, frames, out) ==
    [k \in DOMAIN out |->
        IF 2 * (k - 1) < frames
        THEN CDiv(in[2 * k - 1] + in[2 * k], 2)
        ELSE out[k]]

\* AudioResample(in, in_chan, frames, out, out_chan) for one and two
\* channels
AudioResample(in, in_chan, frames, out, out_chan) ==
    CASE in_chan = out_chan -> in
      [] in_chan = 2 /\ out_chan = 1 -> AudioStereo2Mono(in, frames, out)
      [] in_chan = 1 /\ out_chan = 2 ->
             [k \in DOMAIN out |-> in[(k + 1) \div 2]]
      [] OTHER -> [k \in DOMAIN out |-> 0]

\* values of the samples an uninitialised buffer is found to hold
StackChoices ==
    {-1000, 3}

\* input and hardware channels of the remix
ResampleChannels ==
    {<<2, 1>>, <<1, 2>>, <<2, 2>>}

\* AudioEnqueue remixes the samples it was handed into
\* buffer = alloca(frames * HwChannels * AudioBytesProSample), whose bytes
\* are whatever the stack holds
ResamplePass(in_chan, out_chan) ==
    /\ op # "resample"
    /\ Len(samples) % in_chan = 0
    /\ Len(samples) \div in_chan <= MaxSamples
    /\ Called("resample", <<samples, in_chan, out_chan>>)
    /\ LET frames == Len(samples) \div in_chan
       IN \E out \in [1 .. frames * out_chan -> StackChoices] :
              samples' = AudioResample(samples, in_chan, frames, out,
                                       out_chan)
    /\ FilterFrame
    /\ UNCHANGED <<AudioVolume, AudioMute, AudioSoftVolume, AudioAmplifier,
                   AudioCompression, AudioCompressionFactor,
                   AudioMaxCompression>>

\* ------------------------------------------------------------------------
\*  AudioVideoReady
\* ------------------------------------------------------------------------

\* video time stamps handed to AudioVideoReady
VideoPtsChoices ==
    {0, 147240}

\* time stamps handed to AudioSetClock
ClockChoices ==
    {0}

\* time stamps handed to AudioSetClock where the clock is read back
ClockSamples ==
    {90000, 200000}

\* time stamp of the first audio packet where the video start is looked at
AudioStartSamples ==
    {90000}

\* video time stamps where the skip is looked at: none, behind the audio,
\* half a second and one and a half seconds ahead of audio that starts at
\* AudioStartSamples and lies AudioBufferTime + 300 ms behind
VideoSamples ==
    {AV_NOPTS, 0, 192240, 282240}

\* a video time stamp 45030 ticks (24016 frames at 48000 Hz) ahead of
\* that audio
VideoOddSamples ==
    {192270}

\* a video time stamp one and a half seconds ahead of that audio
VideoAheadSamples ==
    {282240}

\* skip in ticks: pts - 15 * 20 * 90 - AudioBufferTime * 90 - audio_pts
\* + VideoAudioDelay
VideoReadySkipTicks(pts, audio_pts) ==
    pts - 15 * 20 * 90 - AudioBufferTime * 90 - audio_pts + VideoAudioDelay

\* skip in bytes: ((int64_t) skip * HwSampleRate / (1000 * 90))
\* * HwChannels * AudioBytesProSample
VideoReadySkipBytes(ticks, seg) ==
    MulDiv(ticks, seg.HwSampleRate, 1000 * 90)
        * seg.HwChannels * AudioBytesProSample

\* a call that sets the flag for every pts
VideoReadyNoVideoSet(pts) ==
    FALSE

\* pts == AV_NOPTS_VALUE: "a/v start, no valid video", return
VideoReadyNoVideo(pts) ==
    pts = AV_NOPTS

AudioVideoReady(pts) ==
    LET seg == WriteRing
        used == RingBufferUsedBytes(seg.RingBuffer)
        audio_pts == seg.PTS
                        - BytesToTicks(used, seg.HwSampleRate, seg.HwChannels)
        ticks == VideoReadySkipTicks(pts, audio_pts)
        doskip == ticks > 0 /\ ticks < 2000 * 90
        skip == IF doskip THEN VideoReadySkipBytes(ticks, seg) ELSE 0
        rb == RingBufferReadAdvance(seg.RingBuffer, Min(skip, used))
    IN  /\ ProducerIdle
        /\ Called("video_ready", <<pts>>)
        /\ IF VideoReadyNoVideo(pts)
           THEN UNCHANGED <<AudioVideoIsReady, AudioRing, AudioSkip,
                            AudioRunning, signalled>>
           ELSE IF seg.HwSampleRate = 0 \/ seg.HwChannels = 0
                   \/ seg.PTS = AV_NOPTS
           THEN /\ AudioVideoIsReady' = TRUE
                /\ UNCHANGED <<AudioRing, AudioSkip, AudioRunning, signalled>>
           ELSE IF AudioRunning
           THEN /\ AudioVideoIsReady' = TRUE
                /\ UNCHANGED <<AudioRing, AudioSkip, AudioRunning, signalled>>
           ELSE /\ AudioVideoIsReady' = TRUE
                /\ AudioRing' = [AudioRing EXCEPT
                        ![AudioRingWrite].RingBuffer = rb]
                /\ AudioSkip' = IF skip > used THEN skip - used ELSE AudioSkip
                /\ AudioRunning' =
                        (AudioStartThreshold < RingBufferUsedBytes(rb))
                /\ signalled' =
                        IF AudioStartThreshold < RingBufferUsedBytes(rb)
                        THEN CondSignal ELSE signalled
        /\ ret' = 0
        /\ hwDelay' = 0
        /\ UNCHANGED <<staticVars, AudioRingWrite, AudioRingRead,
                       AudioRingFilled, AudioStartThreshold, AudioPaused,
                       PcmHandle, PcmState, worker, producer, sinkLog,
                       nAlloc, nEnq>>

\* ------------------------------------------------------------------------
\*  AudioFlushBuffers
\* ------------------------------------------------------------------------

\* a segment that keeps the time stamp found in the slot
FlushedRingRingKeepPts(new, old) ==
    [new EXCEPT !.FlushBuffers = 1,
                !.UseAc3 = old.UseAc3,
                !.HwSampleRate = old.HwSampleRate,
                !.HwChannels = old.HwChannels,
                !.InSampleRate = old.InSampleRate,
                !.InChannels = old.InChannels,
                !.RingBuffer = RingBufferReadAdvance(@, RingBufferUsedBytes(@)),
                !.id = nAlloc + 1,
                !.Treated = <<>>]

\* the segment AudioFlushBuffers writes into the slot it advanced to
FlushedRingRing(new, old) ==
    [new EXCEPT !.FlushBuffers = 1,
                !.UseAc3 = old.UseAc3,
                !.HwSampleRate = old.HwSampleRate,
                !.HwChannels = old.HwChannels,
                !.InSampleRate = old.InSampleRate,
                !.InChannels = old.InChannels,
                !.PTS = AV_NOPTS,
                !.RingBuffer = RingBufferReadAdvance(@, RingBufferUsedBytes(@)),
                !.id = nAlloc + 1,
                !.Treated = <<>>]

\* AudioFlushBuffers up to and including atomic_inc(&AudioRingFilled)
AudioFlushBuffers ==
    /\ ProducerIdle
    /\ Called("flush_buffers", <<>>)
    /\ ret' = 0
    /\ nAlloc < lim.alloc
    /\ AudioRingWrite' = (AudioRingWrite + 1) % AUDIO_RING_MAX
    /\ AudioRing' = [AudioRing EXCEPT ![AudioRingWrite'] =
            FlushedRingRing(@, AudioRing[AudioRingWrite])]
    /\ AudioVideoIsReady' = FALSE
    /\ AudioSkip' = 0
    /\ AudioRingFilled' = AudioRingFilled + 1
    /\ producer' = [producer EXCEPT !.pc = "flush", !.i = 0]
    /\ nAlloc' = nAlloc + 1
    /\ hwDelay' = 0
    /\ UNCHANGED <<staticVars, AudioRingRead, AudioStartThreshold,
                   AudioRunning, AudioPaused, PcmHandle, PcmState, worker,
                   signalled, sinkLog, nEnq>>

\* values of i after an iteration that did not break: the next poll, as
\* long as polls are told apart, or the end of the loop when the play
\* thread takes no step during the polls that remain
NextPolls(i) ==
    {FlushPolls} \cup (IF i < MaxPoll THEN {i + 1} ELSE {})

\* for (i = 0; i < 24 * 2 + 1; ++i): one poll more
FlushPollsOneMore ==
    24 * 2 + 1

\* one iteration of the poll loop of AudioFlushBuffers, and the return,
\* where the loop counter goes on to one of nexts and the loop ends at
\* last
AudioFlushPollOf(nexts, last) ==
    /\ producer.pc = "flush"
    /\ producer.i < last
    /\ AudioRunning' = TRUE
    /\ signalled' = IF ~AudioRunning THEN CondSignal ELSE signalled
    /\ IF AudioRingFilled = 0
       THEN producer' = [pc |-> "idle", i |-> 0, done |-> WriteRing.id]
       ELSE \E n \in nexts :
               producer' = IF n < last
                           THEN [producer EXCEPT !.i = n]
                           ELSE [pc |-> "idle", i |-> 0, done |-> WriteRing.id]
    /\ Called(IF producer'.pc = "idle" THEN "flush_return" ELSE "flush_poll",
              <<>>)
    /\ ret' = 0
    /\ hwDelay' = 0
    /\ UNCHANGED <<staticVars, ringVars, AudioStartThreshold, AudioPaused,
                   AudioVideoIsReady, AudioSkip, PcmHandle, PcmState, worker,
                   sinkLog, nAlloc, nEnq>>

\* the poll loop where the polls that are told apart are followed by the
\* end of the loop
AudioFlushPoll ==
    AudioFlushPollOf(NextPolls(producer.i), FlushPolls)

\* a poll loop that ends after FlushPollsOneMore iterations
AudioFlushPollOneMore ==
    AudioFlushPollOf({producer.i + 1}, FlushPollsOneMore)

\* the poll loop iteration by iteration: ++i
AudioFlushPollEach ==
    AudioFlushPollOf({producer.i + 1}, FlushPolls)

\* ------------------------------------------------------------------------
\*  Audio clock
\* ------------------------------------------------------------------------

\* a call that leaves the PTS of the write segment as it is
AudioSetClockKeep(pts) ==
    /\ ProducerIdle
    /\ Called("set_clock", <<pts>>)
    /\ ret' = 0
    /\ hwDelay' = 0
    /\ UNCHANGED <<staticVars, ringVars, syncVars, PcmHandle, PcmState,
                   worker, signalled, producer, sinkLog, nAlloc, nEnq>>

AudioSetClock(pts) ==
    /\ ProducerIdle
    /\ Called("set_clock", <<pts>>)
    /\ AudioRing' = [AudioRing EXCEPT ![AudioRingWrite].PTS = pts]
    /\ ret' = 0
    /\ hwDelay' = 0
    /\ UNCHANGED <<staticVars, AudioRingWrite, AudioRingRead, AudioRingFilled,
                   syncVars, PcmHandle, PcmState, worker, signalled, producer,
                   sinkLog, nAlloc, nEnq>>

\* AlsaGetDelay, for the frames snd_pcm_delay reports
AlsaGetDelay(frames) ==
    IF ~PcmHandle \/ ReadRing.HwSampleRate = 0 THEN 0
    ELSE MulDiv(Max(frames, 0), 90 * 1000, ReadRing.HwSampleRate)

\* OssGetDelay, for the bytes SNDCTL_DSP_GETODELAY reports
OssGetDelay(bytes) ==
    IF ~PcmHandle \/ ReadRing.HwSampleRate = 0 THEN 0
    ELSE IF ~AudioRunning THEN 0
    ELSE BytesToTicks(Max(bytes, 0), ReadRing.HwSampleRate,
                      ReadRing.HwChannels)

\* AudioUsedModule->GetDelay()
ModuleGetDelay(d) ==
    IF AudioUsedModule = "alsa" THEN AlsaGetDelay(d)
    ELSE IF AudioUsedModule = "oss" THEN OssGetDelay(d)
    ELSE 0

\* AudioGetDelay without the test of AudioRunning
GetDelayStopped(hw) ==
    IF ReadRing.HwSampleRate = 0 THEN 0
    ELSE IF AudioRingFilled # 0 THEN 0
    ELSE hw + BytesToTicks(RingBufferUsedBytes(ReadRing.RingBuffer),
                           ReadRing.HwSampleRate, ReadRing.HwChannels)

\* the value AudioGetDelay returns when the module reports hw
GetDelay(hw) ==
    IF ~AudioRunning THEN 0
    ELSE IF ReadRing.HwSampleRate = 0 THEN 0
    ELSE IF AudioRingFilled # 0 THEN 0
    ELSE hw + BytesToTicks(RingBufferUsedBytes(ReadRing.RingBuffer),
                           ReadRing.HwSampleRate, ReadRing.HwChannels)

AudioGetDelay ==
    /\ ProducerIdle
    /\ Called("get_delay", <<>>)
    /\ \E d \in HwDelayChoices :
          /\ hwDelay' = ModuleGetDelay(d)
          /\ ret' = GetDelay(hwDelay')
    /\ UNCHANGED <<staticVars, ringVars, syncVars, PcmHandle, PcmState,
                   worker, signalled, producer, sinkLog, nAlloc, nEnq>>

\* a clock that is also given when the delay is zero
GetClockAlways(delay) ==
    IF ReadRing.PTS # AV_NOPTS
    THEN ReadRing.PTS + 0 * 90 - delay
    ELSE AV_NOPTS

\* the value AudioGetClock returns when AudioGetDelay returns delay
GetClock(delay) ==
    IF ReadRing.PTS # AV_NOPTS /\ delay # 0
    THEN ReadRing.PTS + 0 * 90 - delay
    ELSE AV_NOPTS

\* AudioGetClock where the device reports one of answers
AudioGetClockOf(answers) ==
    /\ ProducerIdle
    /\ Called("get_clock", <<>>)
    /\ \E d \in answers :
          /\ hwDelay' = ModuleGetDelay(d)
          /\ ret' = GetClock(GetDelay(hwDelay'))
    /\ UNCHANGED <<staticVars, ringVars, syncVars, PcmHandle, PcmState,
                   worker, signalled, producer, sinkLog, nAlloc, nEnq>>

AudioGetClock ==
    AudioGetClockOf(HwDelayChoices)

\* ------------------------------------------------------------------------
\*  Sink (the kernel device behind the output module)
\* ------------------------------------------------------------------------

\* The sink log holds the writes into the device in order:
\*   <<"write", id, from, to, how>>  bytes [from, to) of the stream of
\*   segment id, as they were enqueued ("asis"), scaled by the software
\*   amplifier ("amplified") or overwritten with zeros ("silence")
\* A write that continues the previous one is merged into it.
SinkWrite(log, id, from, to, how) ==
    IF /\ Len(log) > 0
       /\ log[Len(log)][1] = "write"
       /\ log[Len(log)][2] = id
       /\ log[Len(log)][4] = from
       /\ log[Len(log)][5] = how
    THEN [log EXCEPT ![Len(log)] = <<"write", id, log[Len(log)][3], to, how>>]
    ELSE Append(log, <<"write", id, from, to, how>>)

\* the device played everything it was given and stopped (ALSA: XRUN)
SinkUnderrun ==
    /\ AudioUsedModule = "alsa"
    /\ lim.sink.xrun
    /\ PcmState = "running"
    /\ PcmState' = "xrun"
    /\ op' = ""
    /\ before' = NoCall
    /\ ret' = 0
    /\ hwDelay' = 0
    /\ UNCHANGED <<staticVars, ringVars, syncVars, PcmHandle, worker,
                   signalled, producer, sinkLog, nAlloc, nEnq>>

\* ------------------------------------------------------------------------
\*  AudioPlayHandlerThread
\* ------------------------------------------------------------------------

\* what no step of the thread or of the device changes; such a step is no
\* facade call
ThreadStep ==
    /\ op' = ""
    /\ before' = NoCall
    /\ ret' = 0
    /\ hwDelay' = 0
    /\ UNCHANGED <<AudioUsedModule, HwCaps, AudioChannelMatrix, lim,
                   producer, nAlloc, nEnq>>

\* a step of the thread that leaves the volume and the filters alone
ThreadFrame ==
    /\ ThreadStep
    /\ UNCHANGED filterVars

\* AudioResetCompressor() of the play thread
ThreadResetCompressor ==
    /\ AudioCompressionFactor' = Min(2000, AudioMaxCompression)
    /\ UNCHANGED <<AudioVolume, AudioMute, AudioSoftVolume, AudioAmplifier,
                   AudioCompression, AudioMaxCompression, samples>>

\* pthread_mutex_lock(&AudioMutex); AudioRunning = 0;
ThreadStop ==
    /\ worker.pc = "top"
    /\ AudioRunning' = FALSE
    /\ worker' = [worker EXCEPT !.pc = "condwait"]
    /\ ThreadFrame
    /\ UNCHANGED <<ringVars, AudioStartThreshold, AudioPaused,
                   AudioVideoIsReady, AudioSkip, PcmHandle, PcmState,
                   signalled, sinkLog>>

\* the thread enters pthread_cond_wait and blocks
ThreadWait ==
    /\ worker.pc = "condwait"
    /\ worker' = [worker EXCEPT !.pc = "wait"]
    /\ signalled' = FALSE
    /\ ThreadFrame
    /\ UNCHANGED <<ringVars, syncVars, PcmHandle, PcmState,
                   sinkLog>>

\* pthread_cond_wait returns, after a signal or without one ("cond_wait
\* can return, without signal!"); while (!AudioRunning) decides
ThreadWakeup ==
    /\ worker.pc = "wait"
    /\ worker' = [worker EXCEPT !.pc =
                      IF AudioRunning THEN "scan" ELSE "condwait"]
    /\ signalled' = FALSE
    /\ ThreadFrame
    /\ UNCHANGED <<ringVars, syncVars, PcmHandle, PcmState,
                   sinkLog>>

\* filled = atomic_read(&AudioRingFilled); read = AudioRingRead; flush = 0
ThreadScanBegin ==
    /\ worker.pc = "scan"
    /\ worker' = [worker EXCEPT !.pc = "scanloop",
                                !.filled = AudioRingFilled,
                                !.read = AudioRingRead,
                                !.flush = 0]
    /\ ThreadFrame
    /\ UNCHANGED <<ringVars, syncVars, PcmHandle, PcmState,
                   signalled, sinkLog>>

\* one pass of while (filled--) { ... }, or its end
ThreadScanStep ==
    LET read == (worker.read + 1) % AUDIO_RING_MAX
        filled == worker.filled - 1
    IN  /\ worker.pc = "scanloop"
        /\ IF worker.filled = 0
           THEN /\ worker' = [worker EXCEPT
                                !.pc = IF worker.flush = 1 THEN "flush"
                                       ELSE "tick",
                                !.read = 0, !.flush = 0]
                /\ UNCHANGED ringVars
           ELSE IF AudioRing[read].FlushBuffers = 1
           THEN /\ AudioRing' = [AudioRing EXCEPT ![read].FlushBuffers = 0]
                /\ AudioRingRead' = read
                /\ AudioRingFilled' = filled
                /\ worker' = [worker EXCEPT !.read = read, !.filled = filled,
                                            !.flush = 1]
                /\ UNCHANGED AudioRingWrite
           ELSE /\ worker' = [worker EXCEPT !.read = read, !.filled = filled]
                /\ UNCHANGED ringVars
        /\ ThreadFrame
    /\ UNCHANGED <<syncVars, PcmHandle, PcmState, signalled,
                       sinkLog>>

\* AudioUsedModule->FlushBuffers(): AlsaFlushBuffers drops and prepares
\* the pcm, OssFlushBuffers halts the output
ThreadFlush ==
    /\ worker.pc = "flush"
    /\ PcmState' = IF AudioUsedModule = "alsa" /\ PcmHandle
                   THEN "prepared" ELSE PcmState
    /\ worker' = [worker EXCEPT !.pc = "nextring_f"]
    /\ ThreadFrame
    /\ UNCHANGED <<ringVars, syncVars, PcmHandle, signalled, sinkLog>>

\* outcomes of AudioUsedModule->Setup(&sample_rate, &channels, use_ac3):
\* "ok", "params" (the device refuses the format), "open" (the device can
\* not be opened again; the handle stays invalid), "refuse" (the device is
\* opened again, setting its parameters fails and the handle stays valid)
SetupOutcomes(seg) ==
    IF ~PcmHandle THEN {"closed"}
    ELSE lim.sink.setups \cap
         ({"open", "refuse"} \cup
          (IF <<seg.HwSampleRate, seg.HwChannels>> \in HwCaps
           THEN {"ok"} ELSE {"params"}))

\* the play thread goes on whatever the segment holds
NextRingNeverStops(threshold, used) ==
    FALSE

\* "stop, if not enough in next buffer": AudioNextRing returns 1
NextRingStops(threshold, used) ==
    threshold >= used

\* the Setup of the module failed and the segment keeps its rates
InvalidatedRingKeepRate ==
    [AudioRing EXCEPT ![AudioRingRead].InSampleRate = 0]

\* the Setup of the module failed: the read segment is no longer set up
InvalidatedRing ==
    [AudioRing EXCEPT ![AudioRingRead].HwSampleRate = 0,
                      ![AudioRingRead].InSampleRate = 0]

\* AudioNextRing, called from position pc ("nextring_f" after a flush,
\* "nextring_u" after an underrun); the thread leaves its play loop if the
\* result is not 0 or the read segment is not set up
AudioNextRing(pc) ==
    /\ worker.pc = pc
    /\ \E out \in SetupOutcomes(ReadRing), period \in PeriodChoices :
          IF out = "ok"
          THEN /\ AudioStartThreshold' =
                      ModuleStartThreshold(AudioUsedModule,
                          ReadRing.HwSampleRate, ReadRing.HwChannels, period)
               /\ PcmState' = "prepared"
               /\ worker' = [worker EXCEPT !.pc =
                      IF NextRingStops(AudioStartThreshold',
                             RingBufferUsedBytes(ReadRing.RingBuffer))
                      THEN "top"
                      ELSE IF pc = "nextring_f" THEN "tick" ELSE "scan",
                      !.hw = SegmentFormat(ReadRing)]
               /\ AudioMute' = (AudioVolume = 0)
               /\ AudioAmplifier' = VolumeDescent(AudioVolume)
               /\ AudioCompressionFactor' = Min(2000, AudioMaxCompression)
               /\ UNCHANGED <<AudioRing, PcmHandle, AudioVolume,
                              AudioSoftVolume, AudioCompression,
                              AudioMaxCompression, samples>>
          ELSE /\ AudioRing' = InvalidatedRing
               /\ PcmHandle' = (PcmHandle /\ out # "open")
               /\ worker' = [worker EXCEPT !.pc = "top", !.hw = NoFormat]
               /\ UNCHANGED <<AudioStartThreshold, PcmState, filterVars>>
    /\ ThreadStep
    /\ UNCHANGED <<AudioRingWrite, AudioRingRead,
                   AudioRingFilled, AudioRunning, AudioPaused,
                   AudioVideoIsReady, AudioSkip, signalled, sinkLog>>

ThreadNextRingFlush ==
    AudioNextRing("nextring_f")

ThreadNextRingUnderrun ==
    AudioNextRing("nextring_u")

\* ------------------------------------------------------------------------
\*  AlsaThread / OssThread with AlsaPlayRingbuffer / OssPlayRingbuffer
\* ------------------------------------------------------------------------

\* while (AudioRing[AudioRingRead].HwSampleRate) at the end of the play
\* loop, for the read index r: next pass or back to the start condition
LoopOrStop(r) ==
    IF AudioRing[r].HwSampleRate # 0 THEN "scan" ELSE "top"

\* what the wait for space in the kernel buffers can end with
WaitOutcomes ==
    lim.sink.waits \cap
    (IF AudioUsedModule = "alsa" /\ PcmState = "xrun"
     THEN {"recovered", "error"}
     ELSE {"ok", "timeout", "error"})

\* AlsaThread / OssThread up to the call of the play function
ThreadTick ==
    /\ worker.pc = "tick"
    /\ IF AudioUsedModule = "alsa" /\ ~PcmHandle
       THEN /\ worker' = [worker EXCEPT !.pc = "ticked", !.err = -1]
            /\ UNCHANGED PcmState
       ELSE IF AudioPaused \/ (AudioUsedModule = "oss" /\ ~PcmHandle)
       THEN /\ worker' = [worker EXCEPT !.pc = "ticked", !.err = 1]
            /\ UNCHANGED PcmState
       ELSE \E w \in WaitOutcomes :
               /\ worker' =
                     CASE w = "error" ->
                            [worker EXCEPT !.pc = "ticked", !.err = -1]
                       [] w = "timeout" ->
                            [worker EXCEPT !.pc = "ticked", !.err = 1]
                       [] OTHER ->
                            [worker EXCEPT !.pc = "play", !.first = 1]
               /\ PcmState' = IF w = "recovered" THEN "prepared" ELSE PcmState
    /\ ThreadFrame
    /\ UNCHANGED <<ringVars, syncVars, PcmHandle, signalled,
                   sinkLog>>

\* bytes of one hardware frame of the read segment
FrameBytes(seg) ==
    Max(1, seg.HwChannels * AudioBytesProSample)

\* bytes snd_pcm_writei takes of the k offered, when the device takes at
\* most take bytes: whole frames only
AlsaWritten(seg, k, take) ==
    Min(k \div FrameBytes(seg), take \div FrameBytes(seg)) * FrameBytes(seg)

\* an advance by the frames written, not converted back to bytes
AlsaAdvanceFrames(seg, k, take) ==
    IF AlsaWritten(seg, k, take) = (k \div FrameBytes(seg)) * FrameBytes(seg)
    THEN k
    ELSE AlsaWritten(seg, k, take) \div FrameBytes(seg)

\* bytes the ring is advanced by after that write: avail stays as it was
\* when all frames were written, and is the written part otherwise
AlsaAdvance(seg, k, take) ==
    IF AlsaWritten(seg, k, take) = (k \div FrameBytes(seg)) * FrameBytes(seg)
    THEN k
    ELSE AlsaWritten(seg, k, take)

\* bytes write() takes of the k offered
OssWritten(seg, k, take) ==
    Min(k, take)

\* RingBufferReadAdvance(..., n) with the n write() returned
OssAdvance(seg, k, take) ==
    OssWritten(seg, k, take)

\* what AudioSoftAmplifier does to a buffer
SoftAmplifierEffect ==
    IF AudioMute \/ AudioAmplifier = 0 THEN "silence" ELSE "amplified"

\* a play function that calls the amplifier for AC3 as for PCM
PlayTreatmentNoAc3Test(seg) ==
    IF AudioUsedModule = "alsa"
    THEN IF AudioMute \/ AudioSoftVolume THEN SoftAmplifierEffect ELSE "asis"
    ELSE IF AudioSoftVolume THEN SoftAmplifierEffect ELSE "asis"

\* what AlsaPlayRingbuffer / OssPlayRingbuffer do to the bytes at the read
\* pointer before they write them:
\*   alsa: if (AudioMute || (AudioSoftVolume && !UseAc3)) AudioSoftAmplifier
\*   oss:  if (AudioSoftVolume && !UseAc3) AudioSoftAmplifier
PlayTreatment(seg) ==
    IF AudioUsedModule = "alsa"
    THEN IF AudioMute \/ (AudioSoftVolume /\ seg.UseAc3 = 0)
         THEN SoftAmplifierEffect ELSE "asis"
    ELSE IF AudioSoftVolume /\ seg.UseAc3 = 0
         THEN SoftAmplifierEffect ELSE "asis"

\* what bytes are like that have been through prev and are passed through
\* now: the amplifier works in place, on what it finds
Retreat(prev, now) ==
    CASE now = "asis" -> prev
      [] now = "silence" -> "silence"
      [] prev = "asis" -> now
      [] prev = "silence" -> "silence"
      [] OTHER -> "twice"

\* what has been done to the byte before stream position pos
TreatedAt(regs, pos) ==
    LET later == {i \in DOMAIN regs : regs[i].to >= pos}
    IN IF later = {} THEN "asis"
       ELSE regs[CHOOSE i \in later : \A j \in later : i <= j].how

\* the regions after the k bytes at the read position rd have been passed
\* through now
Treat(regs, rd, k, now) ==
    LET cuts == {c \in {regs[i].to : i \in DOMAIN regs} \cup {rd + k} : c > rd}
        n == Cardinality(cuts)
        sorted == CHOOSE q \in [1 .. n -> cuts] :
                      \A i, j \in 1 .. n : i < j => q[i] < q[j]
        all == [i \in 1 .. n |->
                   [to |-> sorted[i],
                    how |-> Retreat(TreatedAt(regs, sorted[i]),
                                    IF sorted[i] <= rd + k THEN now
                                    ELSE "asis")]]
        touched(r) == r.how # "asis"
    IN SelectSeq(all, touched)

\* the regions that are left when the read position is rd
TreatedFrom(regs, rd) ==
    LET ahead(r) == r.to > rd
    IN SelectSeq(regs, ahead)

\* the write of the bytes [from, to) of the ring, region by region
RECURSIVE SinkWriteTreated(_, _, _, _, _)
SinkWriteTreated(log, id, from, to, regs) ==
    IF from >= to THEN log
    ELSE IF regs = <<>> THEN SinkWrite(log, id, from, to, "asis")
    ELSE IF regs[1].to <= from
    THEN SinkWriteTreated(log, id, from, to, Tail(regs))
    ELSE SinkWriteTreated(SinkWrite(log, id, from, Min(regs[1].to, to),
                                    regs[1].how),
                          id, Min(regs[1].to, to), to, Tail(regs))

\* the read segment after the play function has passed the k bytes at its
\* read position through the amplifier, or has left them alone
TreatedRing(k) ==
    [AudioRing EXCEPT ![AudioRingRead].Treated =
        Treat(@, ReadRing.RingBuffer.rd, k, PlayTreatment(ReadRing))]

\* the write of k bytes found at the read pointer of the read segment
PlayWrite(k, take) ==
    LET seg == ReadRing
        rd == seg.RingBuffer.rd
        regs == TreatedRing(k)[AudioRingRead].Treated
        written == IF AudioUsedModule = "alsa"
                   THEN AlsaWritten(seg, k, take) ELSE OssWritten(seg, k, take)
        advance == IF AudioUsedModule = "alsa"
                   THEN AlsaAdvance(seg, k, take) ELSE OssAdvance(seg, k, take)
    IN  /\ sinkLog' = IF written > 0
                      THEN SinkWriteTreated(sinkLog, seg.id, rd, rd + written,
                                            regs)
                      ELSE sinkLog
        /\ AudioRing' = [AudioRing EXCEPT ![AudioRingRead] =
                            [@ EXCEPT !.RingBuffer =
                                          RingBufferReadAdvance(@, advance),
                                      !.Treated =
                                          TreatedFrom(regs, rd + advance)]]
        /\ PcmState' = IF AudioUsedModule = "alsa" THEN "running"
                       ELSE PcmState
        /\ worker' = [worker EXCEPT !.first = 0]

\* the play function returns r; AlsaThread / OssThread turn it into err
PlayReturn(r) ==
    LET err == IF r < 0 THEN -1
               ELSE IF r = 0 THEN 1
               ELSE IF AudioUsedModule = "oss" THEN 0
               ELSE IF PcmState # "running" THEN 0
               ELSE 1
    IN  worker' = [worker EXCEPT !.pc = "ticked", !.err = err, !.first = 0]

\* one pass of the for (;;) of AlsaPlayRingbuffer / OssPlayRingbuffer, for
\* the space avail the device reports (-1: the query fails) and the bytes
\* take it accepts of a write (-1: the write fails)
ThreadPlay ==
    /\ worker.pc = "play"
    /\ \E avail \in lim.sink.avails :
          LET n == RingBufferGetReadPointer(ReadRing.RingBuffer)
              k == Min(n, avail)
          IN  IF avail < 0
              THEN /\ PlayReturn(-1)
                   /\ UNCHANGED <<AudioRing, PcmState, sinkLog>>
              ELSE IF AudioUsedModule = "alsa" /\ avail < 256
              THEN /\ PlayReturn(0)
                   /\ PcmState' = IF worker.first = 1 /\ PcmState = "prepared"
                                  THEN "running" ELSE PcmState
                   /\ UNCHANGED <<AudioRing, sinkLog>>
              ELSE IF n = 0
              THEN /\ PlayReturn(IF worker.first = 1 THEN 1 ELSE 0)
                   /\ UNCHANGED <<AudioRing, PcmState, sinkLog>>
              ELSE IF k <= 0
              THEN /\ PlayReturn(0)
                   /\ UNCHANGED <<AudioRing, PcmState, sinkLog>>
              ELSE \E take \in lim.sink.takes :
                      IF take < 0
                      THEN /\ PlayReturn(IF AudioUsedModule = "alsa"
                                         THEN -1 ELSE 1)
                           /\ AudioRing' = TreatedRing(k)
                           /\ UNCHANGED <<PcmState, sinkLog>>
                      ELSE PlayWrite(k, take)
    /\ ThreadFrame
    /\ UNCHANGED <<AudioRingWrite, AudioRingRead,
                   AudioRingFilled, syncVars, PcmHandle, signalled>>

\* ThreadPlay up to the return of snd_pcm_writei / write: the device has
\* the bytes, the ring buffer is not advanced yet
ThreadPlayWrite ==
    /\ worker.pc = "play"
    /\ \E avail \in lim.sink.avails :
          LET seg == ReadRing
              n == RingBufferGetReadPointer(seg.RingBuffer)
              k == Min(n, avail)
          IN  IF avail < 0
              THEN /\ PlayReturn(-1)
                   /\ UNCHANGED <<AudioRing, PcmState, sinkLog>>
              ELSE IF AudioUsedModule = "alsa" /\ avail < 256
              THEN /\ PlayReturn(0)
                   /\ PcmState' = IF worker.first = 1 /\ PcmState = "prepared"
                                  THEN "running" ELSE PcmState
                   /\ UNCHANGED <<AudioRing, sinkLog>>
              ELSE IF n = 0
              THEN /\ PlayReturn(IF worker.first = 1 THEN 1 ELSE 0)
                   /\ UNCHANGED <<AudioRing, PcmState, sinkLog>>
              ELSE IF k <= 0
              THEN /\ PlayReturn(0)
                   /\ UNCHANGED <<AudioRing, PcmState, sinkLog>>
              ELSE \E take \in lim.sink.takes :
                      LET written == IF AudioUsedModule = "alsa"
                                     THEN AlsaWritten(seg, k, take)
                                     ELSE OssWritten(seg, k, take)
                          advance == IF AudioUsedModule = "alsa"
                                     THEN AlsaAdvance(seg, k, take)
                                     ELSE OssAdvance(seg, k, take)
                      IN  IF take < 0
                          THEN /\ PlayReturn(IF AudioUsedModule = "alsa"
                                             THEN -1 ELSE 1)
                               /\ AudioRing' = TreatedRing(k)
                               /\ UNCHANGED <<PcmState, sinkLog>>
                          ELSE /\ sinkLog' =
                                     IF written > 0
                                     THEN SinkWriteTreated(sinkLog, seg.id,
                                              seg.RingBuffer.rd,
                                              seg.RingBuffer.rd + written,
                                              TreatedRing(k)[AudioRingRead]
                                                  .Treated)
                                     ELSE sinkLog
                               /\ AudioRing' = TreatedRing(k)
                               /\ PcmState' = IF AudioUsedModule = "alsa"
                                              THEN "running" ELSE PcmState
                               /\ worker' = [worker EXCEPT !.pc = "advance",
                                                           !.adv = advance,
                                                           !.first = 0]
    /\ ThreadFrame
    /\ UNCHANGED <<AudioRingWrite, AudioRingRead, AudioRingFilled, syncVars,
                   PcmHandle, signalled>>

\* RingBufferReadAdvance after the write, and the next pass of the for (;;)
ThreadPlayAdvance ==
    /\ worker.pc = "advance"
    /\ AudioRing' = [AudioRing EXCEPT ![AudioRingRead] =
                        [@ EXCEPT !.RingBuffer =
                                      RingBufferReadAdvance(@, worker.adv),
                                  !.Treated =
                                      TreatedFrom(@, ReadRing.RingBuffer.rd
                                                         + worker.adv)]]
    /\ worker' = [worker EXCEPT !.pc = "play", !.adv = 0]
    /\ ThreadFrame
    /\ UNCHANGED <<AudioRingWrite, AudioRingRead, AudioRingFilled, syncVars,
                   PcmHandle, PcmState, signalled, sinkLog>>

\* the play thread looks at err: next pass, next ring buffer, or sleep
ThreadTicked ==
    LET next == (AudioRingRead + 1) % AUDIO_RING_MAX
        old == ReadRing
        new == AudioRing[next]
    IN  /\ worker.pc = "ticked"
        /\ IF worker.err # 0
           THEN /\ worker' = [worker EXCEPT !.pc = LoopOrStop(AudioRingRead),
                                            !.err = 0]
                /\ UNCHANGED <<AudioRingRead, AudioRingFilled, filterVars>>
           ELSE IF AudioRingFilled = 0
           THEN /\ worker' = [worker EXCEPT !.pc = "top"]
                /\ UNCHANGED <<AudioRingRead, AudioRingFilled, filterVars>>
           ELSE /\ AudioRingFilled' = AudioRingFilled - 1
                /\ AudioRingRead' = next
                /\ worker' = [worker EXCEPT !.pc =
                      IF \/ old.UseAc3 # new.UseAc3
                         \/ old.HwSampleRate # new.HwSampleRate
                         \/ old.HwChannels # new.HwChannels
                      THEN "nextring_u"
                      ELSE LoopOrStop(next)]
                /\ IF \/ old.UseAc3 # new.UseAc3
                      \/ old.HwSampleRate # new.HwSampleRate
                      \/ old.HwChannels # new.HwChannels
                   THEN UNCHANGED filterVars
                   ELSE ThreadResetCompressor
        /\ ThreadStep
    /\ UNCHANGED <<AudioRing, AudioRingWrite, syncVars,
                       PcmHandle, PcmState, signalled, sinkLog>>

\* ------------------------------------------------------------------------
\*  Specifications
\* ------------------------------------------------------------------------

Thread ==
    \/ ThreadStop
    \/ ThreadWait
    \/ ThreadWakeup
    \/ ThreadScanBegin
    \/ ThreadScanStep
    \/ ThreadFlush
    \/ ThreadNextRingFlush
    \/ ThreadNextRingUnderrun
    \/ ThreadTick
    \/ ThreadPlay
    \/ ThreadTicked

\* The decoder sets up stereo or mono PCM, enqueues, synchronises with the
\* video and flushes, against a device that can be slow.
Producer ==
    \/ \E f \in PlayFormats : AudioSetup(f[1], f[2], f[3])
    \/ \E count \in EnqCounts : AudioEnqueue(count)
    \/ \E pts \in VideoPtsChoices : AudioVideoReady(pts)
    \/ \E pts \in ClockChoices : AudioSetClock(pts)
    \/ AudioFlushBuffers
    \/ AudioFlushPoll

Next ==
    \/ Producer
    \/ Thread
    \/ SinkUnderrun

Spec ==
    Init /\ [][Next]_vars

\* ------------------------------------------------------------------------
\*  Properties of Spec
\* ------------------------------------------------------------------------

\* bytes buffered in the write segment
WriteUsed ==
    RingBufferUsedBytes(WriteRing.RingBuffer)

\* the step hands bytes to the sink
SinkWritten ==
    sinkLog' # sinkLog

\* C7: once AudioFlushBuffers has returned, no byte of a segment allocated
\* before the segment of that flush is handed to the sink.
C7_NoWriteAfterFlush ==
    [][SinkWritten => sinkLog'[Len(sinkLog')][2] >= producer.done]_vars

\* C8: while the video is not ready no byte is written to the sink before
\* the write segment has held more than four start thresholds: after one
\* AudioSetup and no AudioFlushBuffers, with AudioVideoIsReady false and no
\* more than four start thresholds written into the segment since its
\* reset, the sink has got nothing.
C8_NoByteBelowThreshold ==
    (/\ nAlloc = 1
     /\ WriteRing.HwSampleRate # 0
     /\ ~AudioVideoIsReady
     /\ WriteRing.RingBuffer.wr <= 4 * AudioStartThreshold)
        => sinkLog = <<>>

\* ------------------------------------------------------------------------
\*  Bytes of a segment
\* ------------------------------------------------------------------------

\* The decoder sets up a stream, enqueues and synchronises with the video,
\* against a device that can be slow; no flush.
InitPlay ==
    InitWith({"alsa"}, {StereoDevice}, SlowSink, MaxPlayAlloc, MaxPlayEnq)

ProducerPlay ==
    \/ \E f \in PlayFormats : AudioSetup(f[1], f[2], f[3])
    \/ \E count \in EnqCounts : AudioEnqueue(count)
    \/ \E pts \in VideoPtsChoices : AudioVideoReady(pts)
    \/ \E pts \in ClockChoices : AudioSetClock(pts)

NextPlay ==
    \/ ProducerPlay
    \/ Thread
    \/ SinkUnderrun

SpecPlay ==
    InitPlay /\ [][NextPlay]_vars

\* C5: within one segment the sink gets the bytes in the order the producer
\* wrote them: of two writes of the same segment the later one starts at or
\* after the stream position where the earlier one ended, so no byte is
\* delivered twice and none before an earlier-written one.
C5_SegmentBytesInOrder ==
    \A i, j \in 1 .. Len(sinkLog) :
        /\ sinkLog[i][3] < sinkLog[i][4]
        /\ (i < j /\ sinkLog[i][2] = sinkLog[j][2])
              => sinkLog[i][4] <= sinkLog[j][3]

\* bytes of a segment were delivered, the thread stopped, AudioVideoReady
\* skipped buffered bytes, and later bytes of the segment were delivered
C5_Witness ==
    \E i, j \in 1 .. Len(sinkLog) :
        /\ i < j
        /\ sinkLog[i][2] = sinkLog[j][2]
        /\ sinkLog[i][4] < sinkLog[j][3]

\* ------------------------------------------------------------------------
\*  Start of the thread by AudioEnqueue
\* ------------------------------------------------------------------------

\* The same calls, with more segments, against a device that takes every
\* write.
InitStart ==
    InitWith({"alsa"}, {StereoDevice}, AcceptingSink, MaxAlloc, MaxEnq)

NextStart ==
    \/ ProducerPlay
    \/ Thread

SpecStart ==
    InitStart /\ [][NextStart]_vars

\* C9: AudioEnqueue sets AudioRunning and signals AudioStartCond if and only
\* if AudioRunning was false and the write segment, after the enqueue and
\* after the pending skip was taken from it, holds more than four start
\* thresholds, or AudioVideoIsReady is true and it holds more than one.
C9_EnqueueStarts ==
    [][op' = "enqueue" =>
          LET must == /\ ~AudioRunning
                      /\ \/ WriteUsed' > 4 * AudioStartThreshold
                         \/ AudioVideoIsReady
                              /\ WriteUsed' > AudioStartThreshold
          IN  /\ AudioRunning' = (AudioRunning \/ must)
              /\ signalled' = IF must THEN signalled \/ worker.pc = "wait"
                               ELSE signalled]_vars

\* an AudioEnqueue found the thread stopped and the video ready, and started
\* the thread on more than one but not more than four start thresholds
C9_Witness ==
    /\ op = "enqueue"
    /\ ~before.running
    /\ AudioRunning
    /\ AudioVideoIsReady
    /\ WriteUsed <= 4 * AudioStartThreshold

\* ------------------------------------------------------------------------
\*  Slot exhaustion
\* ------------------------------------------------------------------------

\* The decoder allocates segments faster than the thread takes them.
InitSlots ==
    InitWith({"alsa"}, {StereoDevice}, AcceptingSink, MaxSlotAlloc, 1)

NextSlots ==
    \/ \E f \in PlayFormats : AudioSetup(f[1], f[2], f[3])
    \/ \E count \in EnqCounts : AudioEnqueue(count)
    \/ Thread

SpecSlots ==
    InitSlots /\ [][NextSlots]_vars

\* what a facade call that returns -1 leaves alone: everything but the
\* record of the call itself
CallChangesNothing ==
    UNCHANGED <<ringVars, syncVars, PcmHandle, PcmState, worker, signalled,
                producer, sinkLog>>

\* C1: with AUDIO_RING_MAX segments in flight AudioSetup returns -1 and
\* leaves the write index, the filled count, the running flag and every
\* segment as they were; so does the ninth of nine AudioSetup calls the
\* thread takes no step between.
C1_FullRingRejects ==
    [][(op' = "setup" /\ AudioRingFilled = AUDIO_RING_MAX)
          => (ret' = -1 /\ CallChangesNothing)]_vars

\* eight AudioSetup calls succeeded, the thread took no step, and the ninth
\* call returned -1
C1_Witness ==
    /\ op = "setup"
    /\ ret = -1
    /\ before.filled = AUDIO_RING_MAX
    /\ nAlloc = AUDIO_RING_MAX
    /\ producer.done = 0
    /\ worker.pc = "top"
    /\ AudioRingRead = 0
    /\ \A r \in Slots : AudioRing[r].FlushBuffers = 1

\* slots from the read index up to the write index w: the slot the thread
\* reads and the slots queued behind it
OccupiedSlots(w) ==
    {(AudioRingRead + i) % AUDIO_RING_MAX :
        i \in 0 .. ((w - AudioRingRead + AUDIO_RING_MAX) % AUDIO_RING_MAX)}

\* C3: the slot AudioSetup or AudioFlushBuffers has just advanced the write
\* index to, and reset, is neither the slot the thread reads nor a slot
\* queued between the read index and the write index.
C3_WriteNeverWraps ==
    (op \in {"setup", "flush_buffers"} /\ AudioRingWrite # before.write)
        => AudioRingWrite \notin OccupiedSlots(before.write)

\* ------------------------------------------------------------------------
\*  Formats the device does not take
\* ------------------------------------------------------------------------

\* The decoder asks for formats of all kinds, of devices of several kinds.
InitConfig ==
    InitWith({"alsa", "oss"},
             {StereoDevice, SurroundDevice, MonoStereoDevice, Only44Device},
             AcceptingSink, MaxAlloc, 1)

NextConfig ==
    \/ \E f \in SetupFormats : AudioSetup(f[1], f[2], f[3])
    \/ \E count \in EnqCounts : AudioEnqueue(count)
    \/ Thread

SpecConfig ==
    InitConfig /\ [][NextConfig]_vars

InitClock ==
    InitWith({"alsa", "oss"}, {StereoDevice}, AcceptingSink, MaxAlloc, MaxEnq)

ProducerClock ==
    \/ \E f \in PlayFormats : AudioSetup(f[1], f[2], f[3])
    \/ \E count \in EnqCounts : AudioEnqueue(count)
    \/ AudioGetDelay

NextClock ==
    \/ ProducerClock
    \/ Thread

SpecClock ==
    InitClock /\ [][NextClock]_vars

\* C10: AudioGetDelay returns 0 when the thread is not running, when the
\* read segment has no format (HwSampleRate 0) or when ring buffers are
\* queued (AudioRingFilled not 0); otherwise the delay the module reports
\* plus used bytes of the read ring * 90000 / (rate * channels * 2).
C10_GetDelay ==
    op = "get_delay" =>
        ret = IF \/ ~AudioRunning
                 \/ ReadRing.HwSampleRate = 0
                 \/ AudioRingFilled # 0
              THEN 0
              ELSE hwDelay
                     + MulDiv(RingBufferUsedBytes(ReadRing.RingBuffer), 90000,
                              ReadRing.HwSampleRate * ReadRing.HwChannels * 2)

\* AudioGetDelay added the time of the bytes in the read ring to a delay
\* the device reported
C10_Witness ==
    /\ op = "get_delay"
    /\ AudioRunning
    /\ AudioRingFilled = 0
    /\ hwDelay > 0
    /\ RingBufferUsedBytes(ReadRing.RingBuffer) > 0
    /\ ret > hwDelay

\* ------------------------------------------------------------------------
\*  Audio clock
\* ------------------------------------------------------------------------

\* The decoder stamps the stream it enqueues, the video thread reads the
\* audio clock.
InitPts ==
    InitWith({"alsa", "oss"}, {StereoDevice}, AcceptingSink, MaxPlayAlloc,
             MaxPlayEnq)

ProducerPts ==
    \/ \E f \in PlayFormats : AudioSetup(f[1], f[2], f[3])
    \/ \E count \in EnqCounts : AudioEnqueue(count)
    \/ \E pts \in ClockSamples : AudioSetClock(pts)
    \/ AudioGetClock

NextPts ==
    \/ ProducerPts
    \/ Thread

SpecPts ==
    InitPts /\ [][NextPts]_vars

\* what AudioGetDelay returns in this state when the module reports hw
DelayNow(hw) ==
    IF ~AudioRunning \/ ReadRing.HwSampleRate = 0 \/ AudioRingFilled # 0
    THEN 0
    ELSE hw + MulDiv(RingBufferUsedBytes(ReadRing.RingBuffer), 90000,
                     ReadRing.HwSampleRate * ReadRing.HwChannels * 2)

\* C11: AudioGetClock returns the no-value when the PTS of the read segment
\* is the no-value, and otherwise that PTS minus AudioGetDelay(), also
\* where AudioGetDelay() is 0.
C11_GetClock ==
    op = "get_clock" =>
        ret = IF ReadRing.PTS = AV_NOPTS THEN AV_NOPTS
              ELSE ReadRing.PTS - DelayNow(hwDelay)

\* C11, as the code has it: AudioGetClock returns the no-value when the PTS
\* of the read segment is the no-value or AudioGetDelay() is 0, and
\* otherwise that PTS minus AudioGetDelay().
C11_GetClockOrNoDelay ==
    op = "get_clock" =>
        ret = IF ReadRing.PTS = AV_NOPTS \/ DelayNow(hwDelay) = 0
              THEN AV_NOPTS
              ELSE ReadRing.PTS - DelayNow(hwDelay)

\* AudioGetClock gave a clock behind the PTS of the segment that is played
C11_Witness ==
    /\ op = "get_clock"
    /\ ReadRing.PTS # AV_NOPTS
    /\ DelayNow(hwDelay) > 0
    /\ ret = ReadRing.PTS - DelayNow(hwDelay)
    /\ ret # AV_NOPTS

ThreadSplit ==
    \/ ThreadStop
    \/ ThreadWait
    \/ ThreadWakeup
    \/ ThreadScanBegin
    \/ ThreadScanStep
    \/ ThreadFlush
    \/ ThreadNextRingFlush
    \/ ThreadNextRingUnderrun
    \/ ThreadTick
    \/ ThreadPlayWrite
    \/ ThreadPlayAdvance
    \/ ThreadTicked

RECURSIVE LogBytes(_, _)
\* bytes of segment id in the writes of log
LogBytes(log, id) ==
    IF log = <<>> THEN 0
    ELSE (IF Head(log)[2] = id THEN Head(log)[4] - Head(log)[3] ELSE 0)
            + LogBytes(Tail(log), id)

\* what snd_pcm_delay (frames) / SNDCTL_DSP_GETODELAY (bytes) report of a
\* device that still holds every byte written of the read segment
DeviceHolds ==
    IF AudioUsedModule = "alsa"
    THEN LogBytes(sinkLog, ReadRing.id) \div FrameBytes(ReadRing)
    ELSE LogBytes(sinkLog, ReadRing.id)

InitMono ==
    InitWith({"alsa", "oss"}, {StereoDevice}, AcceptingSink, MaxPlayAlloc,
             MaxPlayEnq)

ProducerMono ==
    \/ \E f \in PlayFormats : AudioSetup(f[1], f[2], f[3])
    \/ \E count \in EnqCounts : AudioEnqueue(count)
    \/ \E pts \in ClockSamples : AudioSetClock(pts)
    \/ AudioGetClockOf({DeviceHolds})

NextMono ==
    \/ ProducerMono
    \/ ThreadSplit

SpecMono ==
    InitMono /\ [][NextMono]_vars

\* what AudioGetClock returns when called in this state
ClockNow ==
    GetClock(GetDelay(ModuleGetDelay(DeviceHolds)))

\* C13: as long as the read segment stays the same and AudioSetClock is not
\* called, the values AudioGetClock returns that are not the no-value never
\* go down, whatever the play thread and AudioEnqueue do in between.
C13_ClockMonotonic ==
    [][(/\ op' # "set_clock"
        /\ ReadRing'.id = ReadRing.id
        /\ ClockNow # AV_NOPTS
        /\ ClockNow' # AV_NOPTS)
       => ClockNow' >= ClockNow]_vars

\* ------------------------------------------------------------------------
\*  Start of audio and video
\* ------------------------------------------------------------------------

\* The decoder stamps and enqueues audio, the video thread reports its
\* first picture.
InitVideo ==
    InitWith({"alsa"}, {StereoDevice}, AcceptingSink, MaxPlayAlloc,
             MaxPlayEnq)

ProducerVideo ==
    \/ \E f \in PlayFormats : AudioSetup(f[1], f[2], f[3])
    \/ \E count \in EnqCounts : AudioEnqueue(count)
    \/ \E pts \in AudioStartSamples : AudioSetClock(pts)
    \/ \E pts \in VideoSamples : AudioVideoReady(pts)

NextVideo ==
    \/ ProducerVideo
    \/ Thread

SpecVideo ==
    InitVideo /\ [][NextVideo]_vars

\* C14: when AudioVideoReady returns, AudioVideoIsReady is set, for every
\* pts, the no-value included, and in every state.
C14_VideoReadySets ==
    op = "video_ready" => AudioVideoIsReady

\* C14, as the code has it: when AudioVideoReady(pts) returns,
\* AudioVideoIsReady is set for every pts but the no-value; with the
\* no-value the call changes nothing.
C14_VideoReadySetsForVideo ==
    [][op' = "video_ready"
        => IF before'.args[1] = AV_NOPTS
           THEN CallChangesNothing
           ELSE AudioVideoIsReady']_vars

\* AudioVideoReady has set the flag that was not set
C14_Witness ==
    /\ op = "video_ready"
    /\ before.args[1] # AV_NOPTS
    /\ AudioVideoIsReady
    /\ WriteRing.HwSampleRate # 0
    /\ WriteRing.PTS # AV_NOPTS
    /\ ~before.running

\* The same with a second segment, so that a skip left over from the first
\* can meet audio buffered in the second.
InitSkip ==
    InitWith({"alsa"}, {StereoDevice}, AcceptingSink, MaxAlloc, MaxEnq)

SpecSkip ==
    InitSkip /\ [][NextVideo]_vars

\* the call AudioVideoReady(pts) finds valid video and valid audio
VideoReadyValid(pts) ==
    /\ pts # AV_NOPTS
    /\ WriteRing.HwSampleRate # 0
    /\ WriteRing.HwChannels # 0
    /\ WriteRing.PTS # AV_NOPTS

\* the skip in ticks AudioVideoReady(pts) computes in this state
SkipTicksNow(pts) ==
    VideoReadySkipTicks(pts,
        WriteRing.PTS - BytesToTicks(WriteUsed, WriteRing.HwSampleRate,
                                     WriteRing.HwChannels))

\* the call AudioVideoReady(pts) finds the thread stopped and a skip of
\* more than 0 and less than 2 s
VideoReadySkips(pts) ==
    /\ VideoReadyValid(pts)
    /\ ~AudioRunning
    /\ SkipTicksNow(pts) > 0
    /\ SkipTicksNow(pts) < 2000 * 90

\* C15: with the thread stopped and a skip of more than 0 and less than
\* 2 s, AudioVideoReady turns the skip into S bytes of whole frames,
\* advances the read position of the write segment by min(S, used) and
\* leaves AudioSkip = S - min(S, used); with any other skip, or with the
\* thread running, it changes neither the ring buffers nor AudioSkip.
C15_VideoReadySkip ==
    [][op' = "video_ready"
        => LET pts == before'.args[1]
               S == VideoReadySkipBytes(SkipTicksNow(pts), WriteRing)
           IN  IF VideoReadySkips(pts)
               THEN /\ S % (WriteRing.HwChannels * AudioBytesProSample) = 0
                    /\ AudioRing' = [AudioRing EXCEPT
                           ![AudioRingWrite].RingBuffer =
                               RingBufferReadAdvance(@, Min(S, WriteUsed))]
                    /\ AudioSkip' = S - Min(S, WriteUsed)
               ELSE UNCHANGED <<ringVars, AudioSkip>>]_vars

\* C16: an AudioEnqueue that finds AudioSkip > 0 drops min(AudioSkip, used)
\* bytes of the write segment, used counted with the bytes it has just
\* written, and takes as many off AudioSkip; if it leaves AudioSkip > 0 it
\* does not start the thread.
C16_EnqueueAbsorbsSkip ==
    [][(op' = "enqueue" /\ AudioSkip > 0 /\ WriteRing.HwSampleRate # 0)
        => LET rb == RingBufferWrite(WriteRing.RingBuffer,
                         EnqueueBytes(WriteRing, before'.args[1]))
               drop == Min(AudioSkip, RingBufferUsedBytes(rb))
           IN  /\ AudioRing'[AudioRingWrite].RingBuffer =
                       RingBufferReadAdvance(rb, drop)
               /\ AudioSkip' = AudioSkip - drop
               /\ AudioSkip' > 0 => ~(~AudioRunning /\ AudioRunning')]_vars

\* ------------------------------------------------------------------------
\*  Flush
\* ------------------------------------------------------------------------

\* The decoder sets up, stamps and enqueues audio and flushes, the video
\* thread reports its first picture.
InitFlush ==
    InitWith({"alsa"}, {StereoDevice}, AcceptingSink, MaxAlloc, 1)

ProducerFlush ==
    \/ \E f \in PlayFormats : AudioSetup(f[1], f[2], f[3])
    \/ \E count \in EnqCounts : AudioEnqueue(count)
    \/ \E pts \in AudioStartSamples : AudioSetClock(pts)
    \/ \E pts \in VideoAheadSamples : AudioVideoReady(pts)
    \/ AudioFlushBuffers
    \/ AudioFlushPoll

NextFlush ==
    \/ ProducerFlush
    \/ Thread

SpecFlush ==
    InitFlush /\ [][NextFlush]_vars

\* the segment new has the format of the segment old
SameFormat(new, old) ==
    /\ new.UseAc3 = old.UseAc3
    /\ new.InSampleRate = old.InSampleRate
    /\ new.HwSampleRate = old.HwSampleRate
    /\ new.InChannels = old.InChannels
    /\ new.HwChannels = old.HwChannels

\* C17: AudioFlushBuffers makes the next slot the write segment, gives it
\* the format of the previous write segment, marks it FlushBuffers, leaves
\* its ring buffer empty and its PTS the no-value, clears AudioVideoIsReady
\* and AudioSkip and raises AudioRingFilled by exactly one; format, empty
\* ring buffer, PTS and the two cleared variables are still so when the
\* call returns after its polls.
C17_FlushBuffers ==
    [][/\ op' = "flush_buffers"
          => /\ AudioRingWrite' = (AudioRingWrite + 1) % AUDIO_RING_MAX
             /\ SameFormat(WriteRing', WriteRing)
             /\ WriteRing'.FlushBuffers = 1
             /\ RingBufferUsedBytes(WriteRing'.RingBuffer) = 0
             /\ WriteRing'.PTS = AV_NOPTS
             /\ ~AudioVideoIsReady'
             /\ AudioSkip' = 0
             /\ AudioRingFilled' = AudioRingFilled + 1
             /\ \A s \in Slots \ {AudioRingWrite'} :
                    AudioRing'[s] = AudioRing[s]
       /\ op' \in {"flush_poll", "flush_return"}
          => /\ AudioRingWrite' = AudioRingWrite
             /\ SameFormat(WriteRing', WriteRing)
             /\ RingBufferUsedBytes(WriteRing'.RingBuffer) = 0
             /\ WriteRing'.PTS = AV_NOPTS
             /\ ~AudioVideoIsReady'
             /\ AudioSkip' = 0
             /\ AudioRingFilled' = AudioRingFilled]_vars

\* AudioFlushBuffers has queued an empty segment behind one that holds
\* audio with a time stamp
C17_Witness ==
    /\ op = "flush_buffers"
    /\ AudioRingWrite = (before.write + 1) % AUDIO_RING_MAX
    /\ AudioRingFilled = before.filled + 1
    /\ AudioRing[before.write].HwSampleRate # 0
    /\ AudioRing[before.write].PTS # AV_NOPTS
    /\ RingBufferUsedBytes(AudioRing[before.write].RingBuffer) > 0
    /\ WriteRing.HwSampleRate = AudioRing[before.write].HwSampleRate
    /\ WriteRing.PTS = AV_NOPTS
    /\ WriteRing.FlushBuffers = 1

\* segments queued behind the read segment: the slots after the read index
\* up to the write index
QueuedBehind ==
    (AudioRingWrite - AudioRingRead + AUDIO_RING_MAX) % AUDIO_RING_MAX

\* slot s lies behind the read index, up to the write index
IsQueuedBehind(s) ==
    /\ s # AudioRingRead
    /\ (s - AudioRingRead + AUDIO_RING_MAX) % AUDIO_RING_MAX <= QueuedBehind

\* C18: a scan of the play thread that finds segments marked FlushBuffers
\* among the queued ones ends with their marks cleared, AudioRingRead on
\* the last marked one and AudioRingFilled the number of segments queued
\* behind it, and is followed by one call of the module's FlushBuffers.
C18_FlushCoalescing ==
    [][/\ (worker.pc = "scanloop" /\ worker'.pc = "flush")
          => /\ ReadRing'.FlushBuffers = 0
             /\ \A s \in Slots : IsQueuedBehind(s)' =>
                    AudioRing'[s].FlushBuffers = 0
             /\ AudioRingFilled' = QueuedBehind'
       /\ worker.pc = "flush"
          => (worker'.pc = "flush" \/ worker'.pc = "nextring_f")]_vars

\* ------------------------------------------------------------------------
\*  Change of format
\* ------------------------------------------------------------------------

\* The decoder sets up streams of two formats and enqueues audio.
InitFormat ==
    InitWith({"alsa", "oss"}, {StereoDevice}, AcceptingSink, MaxAlloc, MaxEnq)

ProducerFormat ==
    \/ \E f \in TwoFormats : AudioSetup(f[1], f[2], f[3])
    \/ \E count \in EnqCounts : AudioEnqueue(count)

NextFormat ==
    \/ ProducerFormat
    \/ Thread

SpecFormat ==
    InitFormat /\ [][NextFormat]_vars

\* C19: bytes of a segment go to the device only after the Setup of the
\* module for the format of that segment: whenever the play thread has
\* moved to a segment of another UseAc3, HwSampleRate or HwChannels, the
\* device it writes to has been set up for the new format.
C19_SetupBeforePlay ==
    [][SinkWritten => worker.hw = SegmentFormat(ReadRing)]_vars

\* C20: without a call of AudioFlushBuffers the play thread leaves a
\* segment for the next one only when the ring buffer of that segment is
\* empty and every byte enqueued into it has gone to the device.
C20_DrainBeforeSwitch ==
    [][(AudioRingRead' # AudioRingRead /\ ReadRing.HwSampleRate # 0)
        => /\ RingBufferUsedBytes(ReadRing.RingBuffer) = 0
           /\ LogBytes(sinkLog, ReadRing.id)
                  = ReadRing.RingBuffer.wr]_vars

\* A stream of one format, then streams of another, set up faster than the
\* play thread takes them up.
InitWrap ==
    InitWith({"alsa"}, {StereoDevice}, AcceptingSink, MaxSlotAlloc, 2)

ProducerWrap ==
    \/ nAlloc = 0 /\ AudioSetup(48000, 2, 0)
    \/ nAlloc > 0 /\ AudioSetup(44100, 2, 0)
    \/ \E count \in EnqCounts : AudioEnqueue(count)

NextWrap ==
    \/ ProducerWrap
    \/ Thread

SpecWrap ==
    InitWrap /\ [][NextWrap]_vars

\* ------------------------------------------------------------------------
\*  One second of audio
\* ------------------------------------------------------------------------

\* AudioSetup(48000, 2, 0), AudioEnqueue of 192000 bytes, AudioVideoReady(0)
\* and no call after these, with a device that takes every write.
InitScenario ==
    InitWith({"alsa", "oss"}, {StereoDevice}, AcceptingSink, 1, 1)

ProducerScenario ==
    \/ nAlloc = 0 /\ AudioSetup(48000, 2, 0)
    \/ nAlloc = 1 /\ AudioEnqueue(192000)
    \/ nEnq = 1 /\ ~AudioVideoIsReady /\ AudioVideoReady(0)

NextScenario ==
    \/ ProducerScenario
    \/ Thread

SpecScenario ==
    InitScenario /\ [][NextScenario]_vars

\* C6: after AudioSetup, AudioEnqueue of 192000 bytes and AudioVideoReady(0)
\* the sink gets exactly these 192000 bytes, in order, without a further
\* call: when AudioVideoReady returns with the thread asleep on the start
\* condition and AudioRunning false, so that only a further call can wake
\* it, the bytes have been delivered.
C6_ScenarioDelivers ==
    (op = "video_ready" /\ nEnq = 1 /\ worker.pc = "wait" /\ ~AudioRunning)
        => sinkLog = <<<<"write", 1, 0, 192000>>>>

\* ------------------------------------------------------------------------
\*  Order of the segments
\* ------------------------------------------------------------------------

\* The decoder allocates segments and fills them while the thread plays.
InitFifo ==
    InitWith({"alsa"}, {StereoDevice}, AcceptingSink, MaxFifoAlloc, MaxFifoEnq)

NextFifo ==
    \/ \E f \in PlayFormats : AudioSetup(f[1], f[2], f[3])
    \/ \E count \in EnqCounts : AudioEnqueue(count)
    \/ Thread

SpecFifo ==
    InitFifo /\ [][NextFifo]_vars

\* C4: the sink is written from the segments in the order they were
\* allocated: a write of segment k is never followed by a write of a
\* segment allocated before k.
C4_SegmentFifo ==
    \A i, j \in 1 .. Len(sinkLog) :
        i < j => sinkLog[i][2] <= sinkLog[j][2]

\* ------------------------------------------------------------------------
\*  The noop module
\* ------------------------------------------------------------------------

\* AudioInit found the module "noop": every probe of NoopSetup failed, the
\* channel matrix is all zero, and no play thread is created
\* (NoopModule.Thread is NULL).
InitNoop ==
    InitWith({"noop"}, {NoopDevice}, AcceptingSink, MaxAlloc, MaxEnq)

NextNoop ==
    \/ \E f \in NoopFormats : AudioSetup(f[1], f[2], f[3])
    \/ \E count \in EnqCounts : AudioEnqueue(count)
    \/ \E pts \in ClockSamples : AudioSetClock(pts)
    \/ \E pts \in VideoSamples : AudioVideoReady(pts)
    \/ AudioFlushBuffers
    \/ AudioFlushPoll
    \/ AudioGetDelay

SpecNoop ==
    InitNoop /\ [][NextNoop]_vars

InitPoll ==
    InitWith({"alsa"}, {StereoDevice}, AcceptingSink, MaxAlloc, 1)

ProducerPoll ==
    \/ \E f \in PlayFormats : AudioSetup(f[1], f[2], f[3])
    \/ \E count \in EnqCounts : AudioEnqueue(count)
    \/ AudioFlushBuffers
    \/ AudioFlushPollEach

NextPoll ==
    \/ ProducerPoll
    \/ Thread

SpecPoll ==
    InitPoll /\ [][NextPoll]_vars /\ WF_vars(AudioFlushPollEach)

\* a facade call that is a single pass through its code can be made in
\* every state in which the decoder is not inside AudioFlushBuffers
FacadeCallsEnabled ==
    /\ ENABLED AudioGetDelay
    /\ ENABLED AudioGetClock
    /\ \A pts \in ClockSamples : ENABLED AudioSetClock(pts)
    /\ \A pts \in VideoSamples : ENABLED AudioVideoReady(pts)
    /\ nEnq < lim.enq => \A count \in EnqCounts : ENABLED AudioEnqueue(count)
    /\ nAlloc < lim.alloc =>
          /\ \A f \in PlayFormats : ENABLED AudioSetup(f[1], f[2], f[3])
          /\ ENABLED AudioFlushBuffers

\* C22: no facade call waits for the play thread: AudioSetup,
\* AudioEnqueue, AudioVideoReady, AudioGetDelay, AudioGetClock and
\* AudioSetClock can be made and return in whatever state the play thread
\* is, and AudioFlushBuffers returns after at most 48 polls, also when
\* the play thread takes no step at all.
C22_ProducerNeverBlocks ==
    /\ [](ProducerIdle => FacadeCallsEnabled)
    /\ [](producer.pc = "flush" => producer.i < 48)
    /\ (producer.pc = "flush" ~> ProducerIdle)

\* AudioFlushBuffers returned with both segments still queued and the
\* play thread never having taken a step
C22_Witness ==
    /\ op = "flush_return"
    /\ producer.done = 2
    /\ AudioRingFilled = 2
    /\ AudioRingRead = 0
    /\ worker.pc = "top"
    /\ worker.hw = NoFormat
    /\ ~signalled

\* ------------------------------------------------------------------------
\*  AudioExit
\* ------------------------------------------------------------------------

\* positions of the play thread at which a pending cancel is acted on:
\* pthread_cond_wait, and the head of AlsaThread / OssThread
\* (pthread_testcancel, or usleep when there is no device)
CancelPointsNoTest ==
    {"wait"}

CancelPoints ==
    {"wait", "tick"}

\* positions a cancellation point may have been passed on the way to:
\* the usleep before AlsaThread / OssThread returns
CancelPointsPassed ==
    {"ticked"}

\* pthread_cancel(AudioThread) was called and pthread_join has not returned
CancelPending ==
    producer.pc = "exit"

\* the play thread acts on the cancel and terminates
ThreadCancelled ==
    /\ CancelPending
    /\ worker.pc \in CancelPoints \cup CancelPointsPassed
    /\ worker' = [worker EXCEPT !.pc = "exited"]
    /\ ThreadFrame
    /\ UNCHANGED <<ringVars, syncVars, PcmHandle, PcmState, signalled,
                   sinkLog>>

\* the play thread where it can be cancelled: at a cancellation point a
\* pending cancel is acted on, everywhere else the thread goes on
ThreadUntilCancelled ==
    \/ /\ ~(CancelPending /\ worker.pc \in CancelPoints)
       /\ Thread
    \/ ThreadCancelled

\* AudioExit up to pthread_cancel in AudioExitThread, with the position of
\* the play thread and AudioPaused at that moment
AudioExitCancel ==
    /\ ProducerIdle
    /\ Called("exit", <<worker.pc, AudioPaused>>)
    /\ producer' = [producer EXCEPT !.pc = "exit"]
    /\ ret' = 0
    /\ hwDelay' = 0
    /\ UNCHANGED <<staticVars, ringVars, syncVars, PcmHandle, PcmState,
                   worker, signalled, sinkLog, nAlloc, nEnq>>

\* pthread_join returns, and the rest of AudioExit: the Exit of the
\* module, AudioUsedModule = &NoopModule, AudioRingExit, AudioRunning = 0,
\* AudioPaused = 0.  The byte rings are deleted; they are kept here as
\* empty rings.
AudioExitJoin ==
    /\ CancelPending
    /\ worker.pc = "exited"
    /\ Called("exit_return", <<>>)
    /\ producer' = [producer EXCEPT !.pc = "gone"]
    /\ PcmHandle' = FALSE
    /\ AudioUsedModule' = "noop"
    /\ AudioRing' = [s \in Slots |->
            [AudioRing[s] EXCEPT !.HwSampleRate = 0,
                                 !.InSampleRate = 0,
                                 !.RingBuffer = RingBufferReset(@)]]
    /\ AudioRingRead' = 0
    /\ AudioRingWrite' = 0
    /\ AudioRunning' = FALSE
    /\ AudioPaused' = FALSE
    /\ ret' = 0
    /\ hwDelay' = 0
    /\ UNCHANGED <<HwCaps, AudioChannelMatrix, lim, filterVars,
                   AudioRingFilled, AudioStartThreshold, AudioVideoIsReady,
                   AudioSkip, PcmState, worker, signalled, sinkLog, nAlloc,
                   nEnq>>

\* Streams of two formats are played, paused and resumed, and the plugin
\* is stopped at any moment.  The play thread is scheduled: it takes a
\* step whenever it can (its waits are timed or end with the cancel), and
\* so does the thread that runs AudioExit once the join can return.
InitExit ==
    InitWith({"alsa", "oss"}, {StereoDevice}, AcceptingSink, MaxAlloc, 1)

ProducerExit ==
    \/ \E f \in TwoFormats : AudioSetup(f[1], f[2], f[3])
    \/ \E count \in EnqCounts : AudioEnqueue(count)
    \/ AudioPause
    \/ AudioPlay
    \/ AudioExitCancel
    \/ AudioExitJoin

NextExit ==
    \/ ProducerExit
    \/ ThreadUntilCancelled

SpecExit ==
    /\ InitExit
    /\ [][NextExit]_vars
    /\ WF_vars(ThreadUntilCancelled)
    /\ WF_vars(AudioExitJoin)

\* C23: wherever the play thread is when AudioExit cancels it (waiting
\* for the start condition, inside a pass of the module's thread function,
\* paused, flushing or setting up the device), the thread terminates and
\* AudioExit returns, and then AudioRunning and AudioPaused are 0 and the
\* read and write indices are 0.
C23_ExitTerminates ==
    /\ (CancelPending ~> producer.pc = "gone")
    /\ [](producer.pc = "gone" =>
            /\ worker.pc = "exited"
            /\ ~AudioRunning
            /\ ~AudioPaused
            /\ AudioRingRead = 0
            /\ AudioRingWrite = 0)

\* AudioExit returned after bytes of the first stream had been played and
\* while the segment of the second stream was still queued: the play
\* thread was cancelled inside its play loop
C23_Witness ==
    /\ op = "exit_return"
    /\ producer.pc = "gone"
    /\ worker.pc = "exited"
    /\ nAlloc = 2
    /\ AudioRingFilled = 1
    /\ sinkLog # <<>>
    /\ worker.hw # NoFormat

\* ------------------------------------------------------------------------
\*  A segment that is filled up
\* ------------------------------------------------------------------------

\* The decoder hands over more than the play thread takes: the ring of the
\* write segment runs full.
InitFill ==
    InitWith({"alsa"}, {StereoDevice}, AcceptingSink, MaxPlayAlloc, MaxFillEnq)

ProducerFill ==
    \/ \E f \in PlayFormats : AudioSetup(f[1], f[2], f[3])
    \/ \E count \in FillCounts : AudioEnqueue(count)
    \/ \E pts \in AudioStartSamples : AudioSetClock(pts)

NextFill ==
    \/ ProducerFill
    \/ Thread

SpecFill ==
    InitFill /\ [][NextFill]_vars

\* the step is a call of AudioEnqueue into a segment that is set up
EnqueueIntoSegment ==
    op' = "enqueue" /\ WriteRing.HwSampleRate # 0

\* C24: AudioEnqueue into a segment whose PTS is known advances the PTS by
\* B * 90000 / (HwSampleRate * HwChannels * 2), B the number of bytes the
\* call stored in the ring; a PTS that is not known stays so.
C24_PtsAdvanceStored ==
    [][EnqueueIntoSegment =>
          LET seg == WriteRing
              stored == WriteRing'.RingBuffer.wr - seg.RingBuffer.wr
          IN  WriteRing'.PTS =
                 IF seg.PTS = AV_NOPTS THEN AV_NOPTS
                 ELSE seg.PTS + MulDiv(stored, 90000,
                                       seg.HwSampleRate * seg.HwChannels * 2)
      ]_vars

\* C24 as the code has it: the PTS advances by C * 90000 / (HwSampleRate
\* * HwChannels * 2), C the number of bytes the call handed to the ring
\* (count for AC3, else the frames of count in the hardware format),
\* whether the ring stored them all or not; a PTS that is not known stays
\* so.
C24_PtsAdvanceHanded ==
    [][EnqueueIntoSegment =>
          LET seg == WriteRing
              count == before'.args[1]
              handed == IF seg.UseAc3 = 1 THEN count
                        ELSE (count \div (seg.InChannels * 2))
                                * seg.HwChannels * 2
          IN  WriteRing'.PTS =
                 IF seg.PTS = AV_NOPTS THEN AV_NOPTS
                 ELSE seg.PTS + MulDiv(handed, 90000,
                                       seg.HwSampleRate * seg.HwChannels * 2)
      ]_vars

\* after AudioSetClock(90000) three bursts of 672000 bytes (315000 ticks
\* each) were handed over, the ring of the segment is full and has stored
\* less than the three bursts
C24_Witness ==
    /\ op = "enqueue"
    /\ WriteRing.PTS = 90000 + 3 * 315000
    /\ RingBufferFreeBytes(WriteRing.RingBuffer) = 0
    /\ WriteRing.RingBuffer.wr < 3 * 672000

\* ------------------------------------------------------------------------
\*  Whole frames
\* ------------------------------------------------------------------------

\* A stereo stream and a 5.1 stream follow each other on a device that
\* plays both, and the video becomes ready in between.
InitFrames ==
    InitWith({"alsa", "oss"}, {StereoSurroundDevice}, AcceptingSink,
             MaxAlloc, MaxEnq)

ProducerFrames ==
    \/ \E f \in ChannelFormats : AudioSetup(f[1], f[2], f[3])
    \/ \E count \in EnqCounts : AudioEnqueue(count)
    \/ \E pts \in AudioStartSamples : AudioSetClock(pts)
    \/ \E pts \in VideoOddSamples : AudioVideoReady(pts)

NextFrames ==
    \/ ProducerFrames
    \/ Thread

SpecFrames ==
    InitFrames /\ [][NextFrames]_vars

\* C25: the ring of every segment that is not AC3 holds a whole number of
\* frames of its hardware format: its used bytes are a multiple of
\* HwChannels * 2.
C25_WholeFrames ==
    \A s \in Slots :
        (AudioRing[s].UseAc3 = 0 /\ AudioRing[s].HwChannels # 0)
            => RingBufferUsedBytes(AudioRing[s].RingBuffer)
                  % (AudioRing[s].HwChannels * 2) = 0

\* ------------------------------------------------------------------------
\*  AC3 pass-through
\* ------------------------------------------------------------------------

\* A PCM or an AC3 stream is played while the volume is set, muted and
\* switched between the mixer of the device and the software amplifier.
InitPassThrough ==
    InitWith({"alsa", "oss"}, {StereoDevice}, AcceptingSink, MaxPlayAlloc,
             MaxPlayEnq)

ProducerPassThrough ==
    \/ \E f \in PassThroughFormats : AudioSetup(f[1], f[2], f[3])
    \/ \E count \in PassThroughCounts : AudioEnqueue(count)
    \/ \E volume \in VolumeChoices : AudioSetVolume(volume)
    \/ \E onoff \in SoftvolChoices : AudioSetSoftvol(onoff)

NextPassThrough ==
    \/ ProducerPassThrough
    \/ Thread

SpecPassThrough ==
    InitPassThrough /\ [][NextPassThrough]_vars

\* the step stores the bytes of an AC3 burst as they come: all of them,
\* or as many as fit
Ac3StoredAsGiven ==
    (EnqueueIntoSegment /\ WriteRing.UseAc3 = 1)
        => WriteRing'.RingBuffer.wr - WriteRing.RingBuffer.wr
              = Min(before'.args[1], RingBufferFreeBytes(WriteRing.RingBuffer))

\* C26: the bytes of an AC3 segment reach the sink as they were enqueued,
\* whatever the soft volume and the mute are: no remix to whole frames
\* when they are stored, no amplifier when they are written.
C26_Ac3NeverTouched ==
    [][/\ Ac3StoredAsGiven
       /\ (SinkWritten /\ ReadRing.UseAc3 = 1)
             => sinkLog'[Len(sinkLog')][5] = "asis"]_vars

\* C26 as the code has it: the bytes of an AC3 segment reach the sink as
\* they were enqueued whatever the soft volume is, except that the ALSA
\* module writes zeros in their place while AudioMute is set.
C26_Ac3TouchedByMuteOnly ==
    [][/\ Ac3StoredAsGiven
       /\ (SinkWritten /\ ReadRing.UseAc3 = 1)
             => sinkLog'[Len(sinkLog')][5] =
                   IF AudioUsedModule = "alsa" /\ AudioMute
                   THEN "silence" ELSE "asis"]_vars

\* the 192002 bytes of a burst of an AC3 segment were written as they are
\* while the software amplifier was on at half volume
C26_Witness ==
    /\ sinkLog # <<>>
    /\ sinkLog[Len(sinkLog)][5] = "asis"
    /\ ReadRing.UseAc3 = 1
    /\ ReadRing.id = sinkLog[Len(sinkLog)][2]
    /\ sinkLog[Len(sinkLog)][4] % 4 # 0
    /\ AudioSoftVolume
    /\ AudioAmplifier = 500
    /\ ~AudioMute
    /\ op = ""

\* ------------------------------------------------------------------------
\*  The software amplifier
\* ------------------------------------------------------------------------

\* Buffers of all kinds are handed to the amplifier while the volume is
\* set, also to 0.
InitAmplifier ==
    /\ InitRing({"alsa"}, {StereoDevice}, AcceptingSink, MaxPlayAlloc,
                MaxPlayEnq)
    /\ AudioVolume = 0
    /\ AudioMute = FALSE
    /\ AudioSoftVolume = TRUE
    /\ AudioAmplifier = 0
    /\ AudioCompression = FALSE
    /\ AudioCompressionFactor = 0
    /\ AudioMaxCompression = 0
    /\ samples \in SampleBuffers(MaxSamples)

NextAmplifier ==
    \/ \E volume \in VolumeChoices : AudioSetVolume(volume)
    \/ AmplifierPass

SpecAmplifier ==
    InitAmplifier /\ [][NextAmplifier]_vars

\* C27: when AudioMute is set or AudioAmplifier is 0, every sample of the
\* buffer AudioSoftAmplifier was given is 0 afterwards, whatever it was.
C27_MuteSilences ==
    [][(op' = "amplifier" /\ (AudioMute \/ AudioAmplifier = 0))
          => /\ Len(samples') = Len(samples)
             /\ \A i \in 1 .. Len(samples') : samples'[i] = 0]_vars

\* muted, the amplifier was given two samples that were not 0, and both
\* are 0 now
C27_Witness ==
    /\ op = "amplifier"
    /\ AudioMute
    /\ Len(before.args[1]) = 2
    /\ \A i \in 1 .. 2 : before.args[1][i] # 0
    /\ samples = <<0, 0>>

\* ------------------------------------------------------------------------
\*  Remix
\* ------------------------------------------------------------------------

\* Buffers of 1 .. MaxSamples stereo frames (or twice as many mono frames)
\* are remixed once.
InitResample ==
    /\ InitRing({"alsa"}, {StereoDevice}, AcceptingSink, MaxPlayAlloc,
                MaxPlayEnq)
    /\ AudioVolume = 0
    /\ AudioMute = FALSE
    /\ AudioSoftVolume = FALSE
    /\ AudioAmplifier = 0
    /\ AudioCompression = FALSE
    /\ AudioCompressionFactor = 0
    /\ AudioMaxCompression = 0
    /\ samples \in SampleBuffers(2 * MaxSamples)

NextResample ==
    \E ch \in ResampleChannels : ResamplePass(ch[1], ch[2])

SpecResample ==
    InitResample /\ [][NextResample]_vars

\* C28: the stereo to mono remix of n frames produces n samples, and
\* sample k is (L_k + R_k) / 2 for every frame k of the n.
C28_StereoToMono ==
    [][(op' = "resample" /\ before'.args[2] = 2 /\ before'.args[3] = 1)
          => /\ Len(samples') = Len(samples) \div 2
             /\ \A k \in 1 .. Len(samples') :
                    samples'[k]
                        = CDiv(samples[2 * k - 1] + samples[2 * k], 2)]_vars

\* ------------------------------------------------------------------------
\*  The compressor
\* ------------------------------------------------------------------------

\* The compression is configured and switched, and bursts of all kinds
\* are compressed one after the other.
InitCompressor ==
    /\ InitRing({"alsa"}, {StereoDevice}, AcceptingSink, MaxPlayAlloc,
                MaxPlayEnq)
    /\ InitFilters

NextCompressor ==
    \/ \E onoff \in SoftvolChoices, maxfac \in CompressionChoices :
           AudioSetCompression(onoff, maxfac)
    \/ \E buf \in SampleBuffers(MaxSamples) : AudioCompressor(buf)

SpecCompressor ==
    InitCompressor /\ [][NextCompressor]_vars

\* the factor a buffer of this peak may be multiplied with at most
CompressionLimit(peak) ==
    IF (INT16_MAX * 1000) \div peak < AudioMaxCompression
    THEN (INT16_MAX * 1000) \div peak
    ELSE AudioMaxCompression

\* C29: after a compressor pass over a buffer whose peak is not 0 the
\* factor is at most min(INT16_MAX * 1000 / peak, AudioMaxCompression)
\* and no sample times the factor / 1000 leaves the 16 bit range; a pass
\* over a buffer whose peak is 0 changes neither the buffer nor the
\* factor.
C29_CompressorNoClipping ==
    [][op' = "compressor"
          => LET buf == before'.args[1]
             IN IF PeakOf(buf) > 0
                THEN /\ AudioCompressionFactor'
                           <= CompressionLimit(PeakOf(buf))
                     /\ \A i \in DOMAIN buf :
                           /\ CDiv(buf[i] * AudioCompressionFactor', 1000)
                                  <= INT16_MAX
                           /\ CDiv(buf[i] * AudioCompressionFactor', 1000)
                                  >= -INT16_MAX
                           /\ samples'[i]
                                  = CDiv(buf[i] * AudioCompressionFactor',
                                         1000)
                ELSE /\ samples' = buf
                     /\ AudioCompressionFactor' = AudioCompressionFactor]_vars

\* a quiet burst was compressed with the factor AudioMaxCompression
\* allows, which is below INT16_MAX * 1000 / 1000
C29_Witness ==
    /\ op = "compressor"
    /\ before.args[1] = <<-1000, 3>>
    /\ AudioMaxCompression = 2000
    /\ AudioCompressionFactor = 2000
    /\ samples = <<-2000, 6>>

\* ------------------------------------------------------------------------
\*  Start thresholds
\* ------------------------------------------------------------------------

\* Each module sets up every rate of AudioRatesTable with 1 .. 8 channels,
\* for several buffer times and video delays.
InitThreshold ==
    \/ InitWith({"alsa", "oss"}, {StereoDevice}, AcceptingSink, MaxPlayAlloc,
                MaxPlayEnq)
    \/ InitNoop

NextThreshold ==
    \E freq \in {44100, 48000}, channels \in 1 .. 8, period \in SetupPeriods,
       buffer_time \in BufferTimeChoices, video_delay \in VideoDelayChoices :
        ModuleSetupThreshold(freq, channels, period, buffer_time,
                             video_delay)

SpecThreshold ==
    InitThreshold /\ [][NextThreshold]_vars

\* rate x channels x 2 x (buffer time + extra + max(0, video delay / 90))
\* / 1000 for the arguments args of a setup
DelayBytes(args, extra) ==
    (args[1] * args[2] * 2
        * (args[4] + extra + Max(0, args[5] \div 90))) \div 1000

WorkerBetweenOperations ==
    worker.pc \notin {"scanloop"}

\* C31: whenever the decoder thread is between two calls and the play
\* thread is between two operations, AudioRingFilled is
\* (AudioRingWrite - AudioRingRead) mod AUDIO_RING_MAX: no increment of
\* the decoder thread is lost.
C31_FilledConsistent ==
    (ProducerIdle /\ WorkerBetweenOperations)
        => AudioRingFilled
               = (AudioRingWrite - AudioRingRead + AUDIO_RING_MAX)
                     % AUDIO_RING_MAX

\* ------------------------------------------------------------------------
\*  The start handshake
\* ------------------------------------------------------------------------

\* C32: the play thread is never blocked in pthread_cond_wait on
\* AudioStartCond while AudioRunning is set and no signal is pending.
C32_NoLostWakeup ==
    ~(worker.pc = "wait" /\ AudioRunning /\ ~signalled)

\* ------------------------------------------------------------------------
\*  The forced start
\* ------------------------------------------------------------------------

\* A 7.1 stream is set up and enqueued until its segment is full; the
\* video never reports ready.
InitForced ==
    InitWith({"alsa", "oss"}, {FullSurroundDevice}, AcceptingSink,
             MaxPlayAlloc, MaxFillEnq)

ProducerForced ==
    \/ \E f \in FullSurroundFormats : AudioSetup(f[1], f[2], f[3])
    \/ \E count \in FillCounts : AudioEnqueue(count)

NextForced ==
    \/ ProducerForced
    \/ Thread

SpecForced ==
    InitForced /\ [][NextForced]_vars

\* C33: with the video not ready, the enqueues into a segment whose
\* thread is not running start the thread before the segment is full: an
\* AudioEnqueue that leaves no free byte in the write segment has set
\* AudioRunning.
C33_ForcedStartReachable ==
    [][(/\ op' = "enqueue"
        /\ ~AudioRunning
        /\ ~AudioVideoIsReady
        /\ WriteRing.HwSampleRate # 0
        /\ RingBufferFreeBytes(WriteRing'.RingBuffer) = 0)
          => AudioRunning']_vars

\* ------------------------------------------------------------------------
\*  The amplifier and short writes
\* ------------------------------------------------------------------------

\* A PCM stream is played through a device that takes some writes only in
\* part, while the volume and the soft volume are set.
InitShort ==
    InitWith({"alsa", "oss"}, {StereoDevice}, SlowSink, MaxPlayAlloc,
             MaxPlayEnq)

ProducerShort ==
    \/ \E f \in PlayFormats : AudioSetup(f[1], f[2], f[3])
    \/ \E count \in EnqCounts : AudioEnqueue(count)
    \/ \E volume \in VolumeChoices : AudioSetVolume(volume)
    \/ \E onoff \in SoftvolChoices : AudioSetSoftvol(onoff)

NextShort ==
    \/ ProducerShort
    \/ Thread
    \/ SinkUnderrun

SpecShort ==
    InitShort /\ [][NextShort]_vars

\* C34: no byte of a PCM segment reaches the device after it has been
\* scaled by the software amplifier more than once, also when it stayed in
\* the ring after a short write and was offered again.
C34_AmplifiedOnce ==
    \A i \in 1 .. Len(sinkLog) :
        sinkLog[i][1] = "write" => sinkLog[i][5] # "twice"

\* ------------------------------------------------------------------------
\*  A device that fails
\* ------------------------------------------------------------------------

\* Two segments are set up and filled while every call of the device can
\* fail.
InitFail ==
    InitWith({"alsa", "oss"}, {StereoDevice}, FailingSink, MaxAlloc,
             MaxPlayEnq)

ProducerFail ==
    \/ \E f \in PlayFormats : AudioSetup(f[1], f[2], f[3])
    \/ \E count \in EnqCounts : AudioEnqueue(count)

NextFail ==
    \/ ProducerFail
    \/ Thread
    \/ SinkUnderrun

SpecFail ==
    InitFail /\ [][NextFail]_vars

\* C35: AlsaThread / OssThread return 0 (underrun) only when the ring of
\* the read segment is empty, so that the play thread leaves no segment
\* that holds bytes; in particular a write that failed does not make them
\* return 0.
C35_UnderrunOnlyWhenEmpty ==
    [][(worker.pc = "play" /\ worker'.pc = "ticked" /\ worker'.err = 0)
          => RingBufferUsedBytes(ReadRing.RingBuffer) = 0]_vars

\* ------------------------------------------------------------------------
\*  The flush mark of a segment
\* ------------------------------------------------------------------------

\* C36: the play thread writes no byte of a segment marked FlushBuffers
\* before it has called the FlushBuffers of the module for it. The thread
\* clears the mark of a segment only in the scan that is followed by that
\* call, hence no write takes its bytes from a segment that still carries
\* the mark, whether the thread came to it by the scan or by the advance
\* after an underrun.
C36_FlushBeforePlay ==
    [][SinkWritten => ReadRing.FlushBuffers = 0]_vars

\* ------------------------------------------------------------------------
\*  A device that refuses a format
\* ------------------------------------------------------------------------

\* Streams of two formats are set up and filled and the video thread asks
\* for the delay, while the Setup of the module in AudioNextRing can fail.
InitRefuse ==
    InitWith({"alsa", "oss"}, {StereoDevice}, RefusingSink, MaxAlloc,
             MaxPlayEnq)

ProducerRefuse ==
    \/ \E f \in TwoFormats : AudioSetup(f[1], f[2], f[3])
    \/ \E count \in EnqCounts : AudioEnqueue(count)
    \/ AudioGetDelay

NextRefuse ==
    \/ ProducerRefuse
    \/ Thread
    \/ SinkUnderrun

SpecRefuse ==
    InitRefuse /\ [][NextRefuse]_vars

\* AudioNextRing has returned -1: the device is set up for no format
SetupFailed ==
    /\ worker.pc \in {"nextring_f", "nextring_u"}
    /\ worker'.pc # worker.pc
    /\ worker'.hw = NoFormat

\* C37: when the Setup of the module fails in AudioNextRing, the read
\* segment loses its HwSampleRate and InSampleRate and the play thread
\* leaves its play loop for the start condition, having written no byte;
\* as long as the read segment is not set up AudioGetDelay returns 0, and
\* as long as the write segment is not set up AudioEnqueue drops its bytes
\* and changes nothing.
C37_SetupFailure ==
    [][/\ SetupFailed => /\ ReadRing'.HwSampleRate = 0
                         /\ ReadRing'.InSampleRate = 0
                         /\ worker'.pc = "top"
                         /\ sinkLog' = sinkLog
       /\ (op' = "get_delay" /\ ReadRing.HwSampleRate = 0) => ret' = 0
       /\ (op' = "enqueue" /\ WriteRing.HwSampleRate = 0)
             => UNCHANGED <<ringVars, syncVars>>]_vars

\* the Setup failed for a segment that holds 192000 bytes and is also the
\* write segment, the play thread waits, one of two calls of AudioEnqueue
\* has been dropped and AudioGetDelay has then returned 0
C37_Witness ==
    /\ op = "get_delay"
    /\ ret = 0
    /\ nEnq = 2
    /\ worker.pc = "wait"
    /\ AudioRingRead = AudioRingWrite
    /\ ReadRing.HwSampleRate = 0
    /\ ReadRing.InSampleRate = 0
    /\ RingBufferUsedBytes(ReadRing.RingBuffer) = 192000
    /\ sinkLog = <<>>

\* ------------------------------------------------------------------------
\*  A segment below the start threshold
\* ------------------------------------------------------------------------

\* AudioNextRing has set up the device for the read segment
SetupDone ==
    /\ worker.pc \in {"nextring_f", "nextring_u"}
    /\ worker'.pc # worker.pc
    /\ worker'.hw # NoFormat

\* C38: when AudioNextRing has set up the device and the read segment
\* holds no more bytes than AudioStartThreshold, the play thread leaves its
\* play loop without a write, sets AudioRunning to 0 and waits on the start
\* condition; unless it is cancelled, it leaves the wait only for the
\* play loop and only when AudioRunning has been set again.
C38_ParkBelowThreshold ==
    [][/\ (/\ SetupDone
           /\ AudioStartThreshold'
                  >= RingBufferUsedBytes(ReadRing.RingBuffer))
             => (worker'.pc = "top" /\ sinkLog' = sinkLog)
       /\ (worker.pc = "top" /\ worker'.pc # "top")
             => /\ worker'.pc = "condwait"
                /\ ~AudioRunning'
                /\ sinkLog' = sinkLog
       /\ (/\ worker.pc \in {"condwait", "wait"}
           /\ worker'.pc \notin {"condwait", "wait", "exited"})
             => (worker'.pc = "scan" /\ AudioRunning)]_vars

\* the device has been set up for the second segment, which holds no byte,
\* and the play thread waits with AudioRunning = 0; the bytes of the first
\* segment have been played
C38_Witness ==
    /\ worker.pc = "wait"
    /\ ~AudioRunning
    /\ AudioRingRead = 2
    /\ worker.hw = SegmentFormat(ReadRing)
    /\ ReadRing.HwSampleRate # 0
    /\ RingBufferUsedBytes(ReadRing.RingBuffer) <= AudioStartThreshold
    /\ Len(sinkLog) = 1

\* ------------------------------------------------------------------------
\*  Pause
\* ------------------------------------------------------------------------

\* A stream is set up, filled and played while the output is paused and
\* resumed.
InitPause ==
    InitWith({"alsa", "oss"}, {StereoDevice}, SlowSink, MaxPlayAlloc,
             MaxPlayEnq)

ProducerPause ==
    \/ \E f \in PlayFormats : AudioSetup(f[1], f[2], f[3])
    \/ \E count \in EnqCounts : AudioEnqueue(count)
    \/ AudioPause
    \/ AudioPlay

NextPause ==
    \/ ProducerPause
    \/ Thread
    \/ SinkUnderrun

SpecPause ==
    InitPause /\ [][NextPause]_vars

\* C39: a call of AlsaThread / OssThread that finds AudioPaused set
\* returns without a write and its result is not 0 (underrun); AudioPause
\* while the output is paused and AudioPlay while it is not paused change
\* nothing.
C39_PausedTick ==
    [][/\ (worker.pc = "tick" /\ AudioPaused /\ worker'.pc # "tick")
             => /\ worker'.pc = "ticked"
                /\ worker'.err # 0
                /\ sinkLog' = sinkLog
                /\ UNCHANGED ringVars
       /\ (op' = "pause" /\ AudioPaused)
             => (AudioPaused' /\ CallChangesNothing)
       /\ (op' = "play" /\ ~AudioPaused)
             => (~AudioPaused' /\ CallChangesNothing)]_vars

\* the output was paused before the play thread came to its first call of
\* AlsaThread / OssThread for a segment of 384000 bytes: the call has
\* returned 1 and no byte has been written
C39_Witness ==
    /\ op = ""
    /\ AudioPaused
    /\ PcmHandle
    /\ worker.pc = "ticked"
    /\ worker.err = 1
    /\ worker.hw = SegmentFormat(ReadRing)
    /\ RingBufferUsedBytes(ReadRing.RingBuffer) = 384000
    /\ sinkLog = <<>>

\* ------------------------------------------------------------------------
\*  The skip and the write segment
\* ------------------------------------------------------------------------

\* C40: a skip that AudioVideoReady has left in AudioSkip for one write
\* segment is not taken from the bytes of another: every call of
\* AudioSetup or AudioFlushBuffers that moves AudioRingWrite to a new
\* segment leaves AudioSkip at 0.
C40_SkipStaysWithSegment ==
    [][(/\ op' \in {"setup", "flush_buffers"}
        /\ AudioRingWrite' # AudioRingWrite) => AudioSkip' = 0]_vars

====
